---- MODULE Spec2Model ----
(***************************************************************************)
(* Model of the tradebot core: RiskManager (src/src/risk/manager.py),      *)
(* ExecutionEngine (src/src/execution/engine.py) and the callbacks of      *)
(* TradingBot (src/main.py) that drive them on one asyncio event loop.     *)
(*                                                                         *)
(* asyncio is cooperative: a task runs until it awaits something that      *)
(* suspends (asyncio.sleep here), so every action below is the code        *)
(* between two suspension points.  Money and prices are integers           *)
(* (fixed point); where the code divides, the model divides with \div.     *)
(***************************************************************************)
EXTENDS Integers, Sequences, FiniteSets, TLC

\* ------------------------------------------------------------- bounds
\* admitted execute_signal invocations explored per run in test and paper mode
MaxCalls == 3
\* admitted execute_signal invocations explored per run in live mode
MaxLiveCalls == 2
\* polls the 30 s fill-wait of _execute_live_order makes before it times out
FillTimeout == 2
\* config.cooldown_period, in seconds
CooldownPeriod == 1
\* balance seeded by ExecutionEngine.initialize
InitialBalance == 100000
\* resolution of the wall clock: steps of datetime.utcnow() per second
TicksPerSecond == 2
MaxWaitedCalls == 1
MaxSeqCalls == 4
\* records of signal_history explored per run
MaxHistory == 6

\* ------------------------------------------------- program constants
CheckTimeout == 1
PollInterval == 1
MaxPositionSize == 10
StopLossPercentage == 2
TakeProfitPercentage == 5
MinOrderSize == 10
RsiPeriod == 14
RsiOversold == 30
RsiOverbought == 70
BollingerPeriod == 20

Prices == {1000, 2000}
\* signal strength in percent (strength 1.0 = 100)
Strengths == {50, 100}
Modes == {"test", "paper", "live"}
\* tasks created by DataCollector._handle_ws_message, one per ticker message
WsTasks == {"ws1", "ws2"}
ExecTasks == WsTasks \cup {"candle"}
Tasks == ExecTasks \cup {"loop"}

\* Python's None for an optional number
None == 0
\* since_trade when last_trade_time is None
Never == 0 - 1

VARIABLES mode, risk_manager, engine, orders, client, tasks, timers, calls,
          last, seen, signal_processor

vars == <<mode, risk_manager, engine, orders, client, tasks, timers, calls,
          last, seen, signal_processor>>

\* ------------------------------------------------------- RiskManager
NoPosition ==
  [status |-> "NONE", entry_price |-> 0, size |-> 0, stop_loss |-> 0,
   take_profit |-> 0, unrealized_pnl |-> 0, realized_pnl |-> 0]

HasPosition(rm) == rm.current_position.status # "NONE"

\* since_trade stands for last_trade_time: it is the time from
\* last_trade_time to datetime.utcnow() in clock ticks, counted up to the
\* cooldown period (all the code ever compares it with), and Never while
\* last_trade_time is None
RiskManagerInit ==
  [balance |-> 0, available_balance |-> 0, current_position |-> NoPosition,
   trade_history |-> <<>>, since_trade |-> Never, total_pnl |-> 0,
   win_rate |-> <<0, 1>>, max_drawdown |-> <<0, 1>>, peak_balance |-> 0]

set_balance(rm, b) ==
  [rm EXCEPT !.balance = b, !.available_balance = b, !.peak_balance = b]

_calculate_position_size(rm, current_price) ==
  LET position_value == (rm.available_balance * MaxPositionSize) \div 100
  IN  position_value \div current_price

\* _check_cooldown with > for >=
_check_cooldown_Strict(rm) ==
  IF rm.since_trade = Never THEN TRUE
  ELSE rm.since_trade > CooldownPeriod * TicksPerSecond

_check_cooldown(rm) ==
  IF rm.since_trade = Never THEN TRUE
  ELSE rm.since_trade >= CooldownPeriod * TicksPerSecond

_get_cooldown_remaining(rm) ==
  IF rm.since_trade = Never THEN 0
  ELSE LET r == CooldownPeriod * TicksPerSecond - rm.since_trade
       IN  IF r > 0 THEN r \div TicksPerSecond ELSE 0

\* can_trade with the position rules (manager.py 61-65) left out
can_trade_NoPositionRule(m, rm, signal, current_price) ==
  IF m \notin {"paper", "live"}
    THEN [allowed |-> TRUE, reason |-> "Test mode - trading allowed", n |-> 0]
  ELSE IF ~_check_cooldown(rm)
    THEN [allowed |-> FALSE, reason |-> "Cooldown period active",
          n |-> _get_cooldown_remaining(rm)]
  ELSE IF signal = "BUY"
          /\ _calculate_position_size(rm, current_price) * current_price < MinOrderSize
    THEN [allowed |-> FALSE, reason |-> "Position size below minimum",
          n |-> _calculate_position_size(rm, current_price) * current_price]
  ELSE IF signal = "BUY" /\ rm.available_balance < MinOrderSize
    THEN [allowed |-> FALSE, reason |-> "Insufficient balance",
          n |-> rm.available_balance]
  ELSE [allowed |-> TRUE, reason |-> "Trade allowed", n |-> 0]

can_trade(m, rm, signal, current_price) ==
  IF m \notin {"paper", "live"}
    THEN [allowed |-> TRUE, reason |-> "Test mode - trading allowed", n |-> 0]
  ELSE IF ~_check_cooldown(rm)
    THEN [allowed |-> FALSE, reason |-> "Cooldown period active",
          n |-> _get_cooldown_remaining(rm)]
  ELSE IF signal = "BUY" /\ HasPosition(rm)
    THEN [allowed |-> FALSE, reason |-> "Already have an open position", n |-> 0]
  ELSE IF signal = "SELL" /\ ~HasPosition(rm)
    THEN [allowed |-> FALSE, reason |-> "No position to sell", n |-> 0]
  ELSE IF signal = "BUY"
          /\ _calculate_position_size(rm, current_price) * current_price < MinOrderSize
    THEN [allowed |-> FALSE, reason |-> "Position size below minimum",
          n |-> _calculate_position_size(rm, current_price) * current_price]
  ELSE IF signal = "BUY" /\ rm.available_balance < MinOrderSize
    THEN [allowed |-> FALSE, reason |-> "Insufficient balance",
          n |-> rm.available_balance]
  ELSE [allowed |-> TRUE, reason |-> "Trade allowed", n |-> 0]

\* Fractions <<numerator, denominator>> in lowest terms with a positive
\* denominator, for the quantities the code computes as floats.
RECURSIVE Gcd(_, _)
Gcd(a, b) == IF b = 0 THEN a ELSE Gcd(b, a % b)

Abs(n) == IF n < 0 THEN 0 - n ELSE n

Lowest(x) ==
  LET g == Gcd(Abs(x[1]), x[2])
  IN  IF x[1] = 0 THEN <<0, 1>> ELSE <<x[1] \div g, x[2] \div g>>

FracMul(x, y) ==
  LET a == Lowest(<<x[1], y[2]>>)
      b == Lowest(<<y[1], x[2]>>)
  IN  Lowest(<<a[1] * b[1], a[2] * b[2]>>)
FracDiv(x, y) == FracMul(x, <<y[2], y[1]>>)
FracSub(x, y) ==
  LET g == Gcd(x[2], y[2])
  IN  Lowest(<<x[1] * (y[2] \div g) - y[1] * (x[2] \div g),
               (x[2] \div g) * y[2]>>)
FracEq(x, y) == Lowest(x) = Lowest(y)
FracLe(x, y) ==
  LET g == Gcd(x[2], y[2])
  IN  x[1] * (y[2] \div g) <= y[1] * (x[2] \div g)
Whole(n) == <<n, 1>>
Percent(n) == Lowest(<<n, 100>>)

\* BUY sizing that does not scale the risk amount with the strength
BuyDetails_RiskUnscaled(available_balance, current_price, signal_strength) ==
  LET position_value == FracMul(Whole(available_balance), Percent(MaxPositionSize))
      base_size == FracDiv(position_value, Whole(current_price))
      adjusted_size == FracMul(base_size, Percent(signal_strength))
      stop_loss == FracMul(Whole(current_price),
                           FracSub(Whole(1), Percent(StopLossPercentage)))
  IN  [size |-> adjusted_size,
       value |-> FracMul(adjusted_size, Whole(current_price)),
       stop_loss |-> stop_loss,
       risk_amount |-> FracMul(base_size,
                               FracSub(Whole(current_price), stop_loss))]

\* The BUY branch of calculate_order_details with _calculate_position_size
\* (manager.py 83-101, 225-228) in exact arithmetic: signal_strength is in
\* percent, the results are fractions.
BuyDetails(available_balance, current_price, signal_strength) ==
  LET position_value == FracMul(Whole(available_balance), Percent(MaxPositionSize))
      base_size == FracDiv(position_value, Whole(current_price))
      adjusted_size == FracMul(base_size, Percent(signal_strength))
      stop_loss == FracMul(Whole(current_price),
                           FracSub(Whole(1), Percent(StopLossPercentage)))
  IN  [size |-> adjusted_size,
       value |-> FracMul(adjusted_size, Whole(current_price)),
       stop_loss |-> stop_loss,
       risk_amount |-> FracMul(adjusted_size,
                               FracSub(Whole(current_price), stop_loss))]

\* the empty dict {} of calculate_order_details
NoDetails ==
  [side |-> "none", size |-> 0, value |-> 0, stop_loss |-> 0, take_profit |-> 0]

\* calculate_order_details whose second branch asks for the Position only
calculate_order_details_NoSellTest(rm, signal, current_price, signal_strength) ==
  IF signal = "BUY" THEN
    LET base_size == _calculate_position_size(rm, current_price)
        adjusted_size == (base_size * signal_strength) \div 100
    IN  [side |-> "buy", size |-> adjusted_size,
         value |-> adjusted_size * current_price,
         stop_loss |-> (current_price * (100 - StopLossPercentage)) \div 100,
         take_profit |-> (current_price * (100 + TakeProfitPercentage)) \div 100]
  ELSE IF HasPosition(rm) THEN
    [side |-> "sell", size |-> rm.current_position.size,
     value |-> rm.current_position.size * current_price,
     stop_loss |-> 0, take_profit |-> 0]
  ELSE NoDetails

calculate_order_details(rm, signal, current_price, signal_strength) ==
  IF signal = "BUY" THEN
    LET base_size == _calculate_position_size(rm, current_price)
        adjusted_size == (base_size * signal_strength) \div 100
    IN  [side |-> "buy", size |-> adjusted_size,
         value |-> adjusted_size * current_price,
         stop_loss |-> (current_price * (100 - StopLossPercentage)) \div 100,
         take_profit |-> (current_price * (100 + TakeProfitPercentage)) \div 100]
  ELSE IF signal = "SELL" /\ HasPosition(rm) THEN
    [side |-> "sell", size |-> rm.current_position.size,
     value |-> rm.current_position.size * current_price,
     stop_loss |-> 0, take_profit |-> 0]
  ELSE NoDetails

open_position(rm, entry_price, size, stop_loss, take_profit) ==
  [rm EXCEPT
     !.current_position =
        [status |-> "OPEN", entry_price |-> entry_price, size |-> size,
         stop_loss |-> stop_loss, take_profit |-> take_profit,
         unrealized_pnl |-> 0, realized_pnl |-> 0],
     !.available_balance = @ - size * entry_price,
     !.since_trade = 0,
     !.trade_history = Append(@, [type |-> "open", price |-> entry_price,
                                  size |-> size, pnl |-> 0])]

\* a/b > c/d for positive denominators
FracGt(x, y) == x[1] * y[2] > y[1] * x[2]

Closes(h) == SelectSeq(h, LAMBDA e : e.type = "close")

\* _update_metrics that keeps the drawdown of the last close
_update_metrics_LastDrawdown(rm) ==
  LET closed == Closes(rm.trade_history)
      winning == SelectSeq(closed, LAMBDA e : e.pnl > 0)
      wr == IF Len(closed) > 0 THEN <<Len(winning), Len(closed)>> ELSE rm.win_rate
      dd == <<rm.peak_balance - rm.balance, rm.peak_balance>>
      md == IF rm.peak_balance > 0 THEN dd ELSE rm.max_drawdown
  IN  [rm EXCEPT !.win_rate = wr, !.max_drawdown = md]

_update_metrics(rm) ==
  LET closed == Closes(rm.trade_history)
      winning == SelectSeq(closed, LAMBDA e : e.pnl > 0)
      wr == IF Len(closed) > 0 THEN <<Len(winning), Len(closed)>> ELSE rm.win_rate
      dd == <<rm.peak_balance - rm.balance, rm.peak_balance>>
      md == IF rm.peak_balance > 0 /\ FracGt(dd, rm.max_drawdown)
              THEN dd ELSE rm.max_drawdown
  IN  [rm EXCEPT !.win_rate = wr, !.max_drawdown = md]

\* close_position without its test for a Position
close_position_NoGuard(rm, exit_price) ==
    LET pnl == rm.current_position.size * (exit_price - rm.current_position.entry_price)
        bal == rm.balance + pnl
    IN  _update_metrics(
          [rm EXCEPT
             !.total_pnl = @ + pnl,
             !.balance = bal,
             !.available_balance = bal,
             !.peak_balance = IF bal > @ THEN bal ELSE @,
             !.since_trade = 0,
             !.trade_history = Append(@, [type |-> "close", price |-> exit_price,
                                          size |-> rm.current_position.size,
                                          pnl |-> pnl]),
             !.current_position = NoPosition])

\* close_position with total_pnl = pnl for total_pnl += pnl
close_position_PnlNotSummed(rm, exit_price) ==
  IF ~HasPosition(rm) THEN rm
  ELSE
    LET pnl == rm.current_position.size * (exit_price - rm.current_position.entry_price)
        bal == rm.balance + pnl
    IN  _update_metrics(
          [rm EXCEPT
             !.total_pnl = pnl,
             !.balance = bal,
             !.available_balance = bal,
             !.peak_balance = IF bal > @ THEN bal ELSE @,
             !.since_trade = 0,
             !.trade_history = Append(@, [type |-> "close", price |-> exit_price,
                                          size |-> rm.current_position.size,
                                          pnl |-> pnl]),
             !.current_position = NoPosition])

close_position(rm, exit_price) ==
  IF ~HasPosition(rm) THEN rm
  ELSE
    LET pnl == rm.current_position.size * (exit_price - rm.current_position.entry_price)
        bal == rm.balance + pnl
    IN  _update_metrics(
          [rm EXCEPT
             !.total_pnl = @ + pnl,
             !.balance = bal,
             !.available_balance = bal,
             !.peak_balance = IF bal > @ THEN bal ELSE @,
             !.since_trade = 0,
             !.trade_history = Append(@, [type |-> "close", price |-> exit_price,
                                          size |-> rm.current_position.size,
                                          pnl |-> pnl]),
             !.current_position = NoPosition])

\* update_position that takes the stop loss for reached only below it
update_position_signal_StrictStop(rm, current_price) ==
  IF ~HasPosition(rm) THEN "None"
  ELSE IF current_price < rm.current_position.stop_loss THEN "SELL"
  ELSE IF current_price >= rm.current_position.take_profit THEN "SELL"
  ELSE "None"

\* the signal update_position returns ("None" for Python's None)
update_position_signal(rm, current_price) ==
  IF ~HasPosition(rm) THEN "None"
  ELSE IF current_price <= rm.current_position.stop_loss THEN "SELL"
  ELSE IF current_price >= rm.current_position.take_profit THEN "SELL"
  ELSE "None"

update_position(rm, current_price) ==
  IF ~HasPosition(rm) THEN rm
  ELSE [rm EXCEPT !.current_position.unrealized_pnl =
          rm.current_position.size * (current_price - rm.current_position.entry_price)]

\* ----------------------------------------------------- SignalProcessor
\* The indicators are numbers: rsi, close and the bands whole numbers,
\* bb_position and volume_ratio fractions.  A record of signal_history is
\* kept by its 'signal', the one entry the code reads back.
FracLt(x, y) == ~FracLe(y, x)

\* the RSI thresholds of the TradingConfig the bot was started with
DefaultConfig == [rsi_oversold |-> RsiOversold, rsi_overbought |-> RsiOverbought]

\* SignalProcessor(config)
SignalProcessorFor(config) ==
  [config |-> config, last_signal |-> "None", signal_history |-> <<>>]

SignalProcessorInit == SignalProcessorFor(DefaultConfig)

\* the empty dict {} process returns with too few candles
NoIndicators ==
  [rsi |-> 0, close |-> 0, bb_upper |-> 0, bb_lower |-> 0,
   bb_position |-> <<0, 1>>, volume_ratio |-> <<0, 1>>]

\* _calculate_indicators: rsi and the bands are what the ta library gave
\* for the candles, avg_volume the rolling mean (0 when it is not positive
\* or undefined)
_calculate_indicators(rsi, bb_upper, bb_lower, current_close, current_volume, avg_volume) ==
  [rsi |-> rsi, close |-> current_close, bb_upper |-> bb_upper,
   bb_lower |-> bb_lower,
   bb_position |-> IF bb_upper # bb_lower
                     THEN FracDiv(Whole(current_close - bb_lower),
                                  Whole(bb_upper - bb_lower))
                     ELSE <<1, 2>>,
   volume_ratio |-> IF avg_volume > 0
                      THEN FracDiv(Whole(current_volume), Whole(avg_volume))
                      ELSE <<1, 1>>]

\* the if/elif chain of _generate_signal (signal_processor.py 113-150)
\* the chain with the SELL rules tested before the BUY rules
RuleSignal_SellFirst(sp, indicators) ==
  LET rsi == indicators.rsi
      rsi_buy == rsi < sp.config.rsi_oversold
      rsi_sell == rsi > sp.config.rsi_overbought
      bb_buy == indicators.close <= indicators.bb_lower
      bb_sell == indicators.close >= indicators.bb_upper
      bb_position == indicators.bb_position
  IN  IF rsi_sell /\ bb_sell THEN "SELL"
      ELSE IF rsi_sell /\ FracLt(<<7, 10>>, bb_position) THEN "SELL"
      ELSE IF bb_sell /\ rsi > 60 THEN "SELL"
      ELSE IF rsi_buy /\ bb_buy THEN "BUY"
      ELSE IF rsi_buy /\ FracLt(bb_position, <<3, 10>>) THEN "BUY"
      ELSE IF bb_buy /\ rsi < 40 THEN "BUY"
      ELSE "HOLD"

RuleSignal(sp, indicators) ==
  LET rsi == indicators.rsi
      rsi_buy == rsi < sp.config.rsi_oversold
      rsi_sell == rsi > sp.config.rsi_overbought
      bb_buy == indicators.close <= indicators.bb_lower
      bb_sell == indicators.close >= indicators.bb_upper
      bb_position == indicators.bb_position
  IN  IF rsi_buy /\ bb_buy THEN "BUY"
      ELSE IF rsi_buy /\ FracLt(bb_position, <<3, 10>>) THEN "BUY"
      ELSE IF bb_buy /\ rsi < 40 THEN "BUY"
      ELSE IF rsi_sell /\ bb_sell THEN "SELL"
      ELSE IF rsi_sell /\ FracLt(<<7, 10>>, bb_position) THEN "SELL"
      ELSE IF bb_sell /\ rsi > 60 THEN "SELL"
      ELSE "HOLD"

\* the volume confirmation of _generate_signal (signal_processor.py 153-158)
\* volume confirmation that downgrades a BUY only
VolumeConfirmed_BuyOnly(signal, indicators) ==
  IF signal = "BUY" /\ FracLt(indicators.volume_ratio, <<1, 2>>)
    THEN "HOLD"
    ELSE signal

VolumeConfirmed(signal, indicators) ==
  IF signal # "HOLD" /\ FracLt(indicators.volume_ratio, <<1, 2>>)
    THEN "HOLD"
    ELSE signal

\* signal_history[-5:]
LastFive(signal_history) ==
  SubSeq(signal_history,
         IF Len(signal_history) > 5 THEN Len(signal_history) - 4 ELSE 1,
         Len(signal_history))

IsMeaningful(h) == h.signal # "HOLD"

\* _should_filter_signal that looks through the whole history
_should_filter_signal_WholeHistory(sp, signal) ==
  IF sp.signal_history = <<>> \/ signal = "HOLD" THEN FALSE
  ELSE LET recent_signals == SelectSeq(sp.signal_history, IsMeaningful)
           last_meaningful_signal == recent_signals[Len(recent_signals)].signal
       IN  /\ recent_signals # <<>>
           /\ \/ signal = "BUY" /\ last_meaningful_signal = "SELL"
              \/ signal = "SELL" /\ last_meaningful_signal = "BUY"

_should_filter_signal(sp, signal) ==
  IF sp.signal_history = <<>> \/ signal = "HOLD" THEN FALSE
  ELSE LET recent_signals == SelectSeq(LastFive(sp.signal_history), IsMeaningful)
           last_meaningful_signal == recent_signals[Len(recent_signals)].signal
       IN  /\ recent_signals # <<>>
           /\ \/ signal = "BUY" /\ last_meaningful_signal = "SELL"
              \/ signal = "SELL" /\ last_meaningful_signal = "BUY"

_generate_signal(sp, indicators) ==
  LET signal == VolumeConfirmed(RuleSignal(sp, indicators), indicators)
  IN  IF _should_filter_signal(sp, signal) THEN "HOLD" ELSE signal

FracAdd(x, y) == FracSub(x, <<0 - y[1], y[2]>>)

\* the kinds of number an indicator can be: Python's float (a division by
\* zero raises ZeroDivisionError) and numpy's float64, which process
\* returns (0/0 gives nan)
Numbers == {"float", "float64"}

NotANumber == <<0, 0>>

\* x / y for whole numbers
Quotient(x, y, numbers) ==
  IF y # 0 THEN [raised |-> FALSE, value |-> Lowest(<<x, y>>)]
  ELSE IF numbers = "float" THEN [raised |-> TRUE, value |-> NotANumber]
  ELSE [raised |-> FALSE, value |-> NotANumber]

\* min(1.0, x): Python keeps 1.0 unless x < 1.0, which nan is not
MinOne(x) == IF x # NotANumber /\ FracLt(x, <<1, 1>>) THEN x ELSE <<1, 1>>

\* SignalProcessor.get_signal_strength: the value returned, or raised
get_signal_strength(sp, indicators, numbers) ==
  LET rsi == indicators.rsi
      bb_position == indicators.bb_position
      rsi_strength ==
        IF rsi <= sp.config.rsi_oversold
          THEN Quotient(sp.config.rsi_oversold - rsi, sp.config.rsi_oversold,
                        numbers)
        ELSE IF rsi >= sp.config.rsi_overbought
          THEN Quotient(rsi - sp.config.rsi_overbought,
                        100 - sp.config.rsi_overbought, numbers)
        ELSE [raised |-> FALSE, value |-> <<0, 1>>]
      bb_strength ==
        IF FracLe(bb_position, <<1, 10>>)
          THEN FracDiv(FracSub(<<1, 10>>, bb_position), <<1, 10>>)
        ELSE IF FracLe(<<9, 10>>, bb_position)
          THEN FracDiv(FracSub(bb_position, <<9, 10>>), <<1, 10>>)
        ELSE <<0, 1>>
  IN  IF rsi_strength.raised THEN [raised |-> TRUE, value |-> NotANumber]
      ELSE IF rsi_strength.value = NotANumber
        THEN [raised |-> FALSE, value |-> MinOne(NotANumber)]
      ELSE [raised |-> FALSE,
            value |-> MinOne(FracDiv(FracAdd(rsi_strength.value, bb_strength),
                                     <<2, 1>>))]

\* max(self.config.rsi_period, self.config.bollinger_period)
RequiredCandles ==
  IF RsiPeriod > BollingerPeriod THEN RsiPeriod ELSE BollingerPeriod

\* process that treats too few candles as a HOLD of the rules
process_ShortRecorded(sp, len, indicators) ==
  LET signal == IF len < RequiredCandles THEN "HOLD"
                ELSE _generate_signal(sp, indicators)
  IN  [sp |-> [config |-> sp.config, last_signal |-> signal,
               signal_history |->
                 Append(sp.signal_history, [signal |-> signal])],
       signal |-> signal,
       indicators |-> IF len < RequiredCandles THEN NoIndicators
                      ELSE indicators]

\* process that keeps no record of a HOLD
process_HoldNotRecorded(sp, len, indicators) ==
  IF len < RequiredCandles
    THEN [sp |-> sp, signal |-> "HOLD", indicators |-> NoIndicators]
    ELSE LET signal == _generate_signal(sp, indicators)
         IN  [sp |-> [config |-> sp.config, last_signal |-> signal,
                      signal_history |->
                        IF signal = "HOLD" THEN sp.signal_history
                        ELSE Append(sp.signal_history, [signal |-> signal])],
              signal |-> signal, indicators |-> indicators]

\* SignalProcessor.process for len(candles) candles whose indicators are
\* 'indicators': the processor after the call, the Signal and the snapshot
\* returned
process(sp, len, indicators) ==
  IF len < RequiredCandles
    THEN [sp |-> sp, signal |-> "HOLD", indicators |-> NoIndicators]
    ELSE LET signal == _generate_signal(sp, indicators)
         IN  [sp |-> [config |-> sp.config, last_signal |-> signal,
                      signal_history |->
                        Append(sp.signal_history, [signal |-> signal])],
              signal |-> signal, indicators |-> indicators]

\* --------------------------------------------------- order gateway
\* The RESTClient the engine talks to.  venue[i] is what the venue knows of
\* the order with id i; cancel_requests are the ids cancel_orders was called
\* with; client_order_ids are the n of the "BOT-n" ids sent with create_order.
ClientInit == [venue |-> <<>>, cancel_requests |-> {}, client_order_ids |-> <<>>]

\* get_order / cancel_orders either answer, raise, or answer without an order
Faults == {"ok", "raise", "none"}
CancelFaults == {"ok", "raise"}
\* create_order: raises, answers without an order_id, or accepts the order,
\* which the venue may already have filled or cancelled when the call returns
PlaceOutcomes == {"raise", "none", "OPEN", "FILLED", "CANCELLED"}

\* the ids of paper orders ("PAPER-n") are no ids of the venue: get_order
\* on one never answers with an order
VenueKnows(c, oid) == oid \in DOMAIN c.venue

\* the venue cancels an order it still has open
VenueCancel(venue, oid) ==
  IF oid \in DOMAIN venue /\ venue[oid].status = "OPEN"
    THEN [venue EXCEPT ![oid].status = "CANCELLED"] ELSE venue

\* ------------------------------------------------------ ExecutionEngine
\* History kept beside the program's state, read by the claims only:
\* polled_filled are the Order objects a get_order poll found FILLED at the
\* venue while they were in pending_orders; position_updates are the calls
\* of open_position / close_position the engine made, as <<object, price>>;
\* poll_raised are the Order objects a get_order poll of which raised.
SeenInit == [polled_filled |-> {}, position_updates |-> <<>>, poll_raised |-> {}]

EngineInit ==
  [pending_orders |-> <<>>, order_history |-> <<>>, total_orders |-> 0,
   successful_orders |-> 0, failed_orders |-> 0]

\* pending_orders is a dict: a sequence of <<order_id, object>> in insertion
\* order, the object being an index into orders (the heap of Order objects)
PendHas(p, id) == \E i \in 1..Len(p) : p[i][1] = id
PendGet(p, id) == IF PendHas(p, id)
                    THEN p[CHOOSE i \in 1..Len(p) : p[i][1] = id][2] ELSE 0
PendSet(p, id, ref) ==
  IF PendHas(p, id)
    THEN [i \in 1..Len(p) |-> IF p[i][1] = id THEN <<id, ref>> ELSE p[i]]
    ELSE Append(p, <<id, ref>>)
PendDel(p, id) == SelectSeq(p, LAMBDA e : e[1] # id)
PendKeys(p) == [i \in 1..Len(p) |-> p[i][1]]

NewOrder(id, details, current_price, status) ==
  [order_id |-> id, side |-> details.side, size |-> details.size,
   price |-> current_price, status |-> status,
   filled_price |-> IF status = "FILLED" THEN current_price ELSE None,
   filled_size |-> IF status = "FILLED" THEN details.size ELSE None,
   error_message |-> "None"]

\* what execute_signal / check_pending_orders gave its caller
Ret(kind, ref) == [kind |-> kind, ref |-> ref]
NoRet == Ret("-", 0)

\* a task: pc is where it is suspended, ret what its call returned when it
\* ended in this step (NoRet while it is suspended)
IdleFrame(ret) ==
  [pc |-> "idle", signal |-> "None", price |-> 0, details |-> NoDetails,
   ref |-> 0, oid |-> 0, elapsed |-> 0, timeout |-> 0, ids |-> <<>>, ret |-> ret]

\* risk_manager.open_position / close_position as the three modes call it
UpdatePosition(rm, signal, price, size, details) ==
  IF signal = "BUY"
    THEN open_position(rm, price, size, details.stop_loss, details.take_profit)
    ELSE close_position(rm, price)

\* _execute_test_order without order_history.append(order)
_execute_test_order_NoHistory(w, signal, details, current_price) ==
  LET order == NewOrder(w.engine.total_orders, details, current_price, "FILLED")
      ref == Len(w.orders) + 1
  IN  [w |-> [w EXCEPT
         !.orders = Append(@, order),
         !.risk_manager = UpdatePosition(@, signal, current_price,
                                         details.size, details),
         !.seen.position_updates = Append(@, <<ref, current_price>>),
         !.engine.total_orders = @ + 1,
         !.engine.successful_orders = @ + 1],
       frame |-> IdleFrame(Ret("order", ref))]

_execute_test_order(w, signal, details, current_price) ==
  LET order == NewOrder(w.engine.total_orders, details, current_price, "FILLED")
      ref == Len(w.orders) + 1
  IN  [w |-> [w EXCEPT
         !.orders = Append(@, order),
         !.risk_manager = UpdatePosition(@, signal, current_price,
                                         details.size, details),
         !.seen.position_updates = Append(@, <<ref, current_price>>),
         !.engine.total_orders = @ + 1,
         !.engine.successful_orders = @ + 1,
         !.engine.order_history = Append(@, ref)],
       frame |-> IdleFrame(Ret("order", ref))]

\* WaitPoll that takes the venue status EXPIRED for a non-terminal one
WaitPoll_ExpiredIgnored(w, oid, ref, fault) ==
  LET api_order == w.client.venue[oid]
      filled == [w EXCEPT !.orders[ref].status = "FILLED",
                          !.orders[ref].filled_price = api_order.price,
                          !.orders[ref].filled_size = api_order.size]
      cancelled == [w EXCEPT !.orders[ref].status = "CANCELLED",
                             !.orders[ref].error_message =
                                IF api_order.status = "CANCELLED"
                                  THEN "Order CANCELLED" ELSE "Order EXPIRED"]
      marked == IF api_order.status = "FILLED" THEN filled ELSE cancelled
  IN  IF fault = "raise"
        THEN [w |-> [w EXCEPT !.seen.poll_raised = @ \cup {ref}], out |-> "sleep"]
      ELSE IF fault # "ok" \/ ~VenueKnows(w.client, oid)
        THEN [w |-> w, out |-> "sleep"]
      ELSE IF api_order.status \in {"FILLED", "CANCELLED"} THEN
        IF PendHas(w.engine.pending_orders, oid)
          THEN [w |-> [marked EXCEPT
                         !.engine.pending_orders = PendDel(@, oid),
                         !.seen.polled_filled =
                            IF api_order.status = "FILLED" THEN @ \cup {ref} ELSE @],
                out |-> "return"]
          ELSE [w |-> marked, out |-> "sleep"]
      ELSE [w |-> w, out |-> "sleep"]

\* WaitPoll that gives the order up at the first error of get_order
WaitPoll_ErrorEndsWait(w, oid, ref, fault) ==
  LET api_order == w.client.venue[oid]
      filled == [w EXCEPT !.orders[ref].status = "FILLED",
                          !.orders[ref].filled_price = api_order.price,
                          !.orders[ref].filled_size = api_order.size]
      cancelled == [w EXCEPT !.orders[ref].status = "CANCELLED",
                             !.orders[ref].error_message =
                                IF api_order.status = "CANCELLED"
                                  THEN "Order CANCELLED" ELSE "Order EXPIRED"]
      marked == IF api_order.status = "FILLED" THEN filled ELSE cancelled
  IN  IF fault = "raise"
        THEN [w |-> [cancelled EXCEPT
                       !.seen.poll_raised = @ \cup {ref},
                       !.engine.pending_orders = PendDel(@, oid)],
              out |-> "return"]
      ELSE IF fault # "ok" \/ ~VenueKnows(w.client, oid)
        THEN [w |-> w, out |-> "sleep"]
      ELSE IF api_order.status \in {"FILLED", "CANCELLED", "EXPIRED"} THEN
        IF PendHas(w.engine.pending_orders, oid)
          THEN [w |-> [marked EXCEPT
                         !.engine.pending_orders = PendDel(@, oid),
                         !.seen.polled_filled =
                            IF api_order.status = "FILLED" THEN @ \cup {ref} ELSE @],
                out |-> "return"]
          ELSE [w |-> marked, out |-> "sleep"]
      ELSE [w |-> w, out |-> "sleep"]

\* One pass of the body of _wait_for_fill's while loop (engine.py 295-327),
\* the loop condition having held.  out = "return": the order left the loop
\* through a return; out = "sleep": the pass ended at asyncio.sleep(1).
\* A KeyError of del self.pending_orders[order_id] is raised inside the try
\* and so is caught with the gateway's own errors.
WaitPoll(w, oid, ref, fault) ==
  LET api_order == w.client.venue[oid]
      filled == [w EXCEPT !.orders[ref].status = "FILLED",
                          !.orders[ref].filled_price = api_order.price,
                          !.orders[ref].filled_size = api_order.size]
      cancelled == [w EXCEPT !.orders[ref].status = "CANCELLED",
                             !.orders[ref].error_message =
                                IF api_order.status = "CANCELLED"
                                  THEN "Order CANCELLED" ELSE "Order EXPIRED"]
      marked == IF api_order.status = "FILLED" THEN filled ELSE cancelled
  IN  IF fault = "raise"
        THEN [w |-> [w EXCEPT !.seen.poll_raised = @ \cup {ref}], out |-> "sleep"]
      ELSE IF fault # "ok" \/ ~VenueKnows(w.client, oid)
        THEN [w |-> w, out |-> "sleep"]
      ELSE IF api_order.status \in {"FILLED", "CANCELLED", "EXPIRED"} THEN
        IF PendHas(w.engine.pending_orders, oid)
          THEN [w |-> [marked EXCEPT
                         !.engine.pending_orders = PendDel(@, oid),
                         !.seen.polled_filled =
                            IF api_order.status = "FILLED" THEN @ \cup {ref} ELSE @],
                out |-> "return"]
          ELSE [w |-> marked, out |-> "sleep"]
      ELSE [w |-> w, out |-> "sleep"]

\* WaitTimeout that gives the order up without cancel_orders
WaitTimeout_NoCancel(w, oid, ref, cfault) ==
  IF PendHas(w.engine.pending_orders, oid)
    THEN [w |-> [w EXCEPT !.engine.pending_orders = PendDel(@, oid)],
          out |-> "return"]
    ELSE [w |-> w, out |-> "raise"]

\* The timeout branch of _wait_for_fill (engine.py 329-340) for an order
\* object that is not None.  out = "raise": the del raised KeyError.
WaitTimeout(w, oid, ref, cfault) ==
  LET asked == [w EXCEPT !.client.cancel_requests = @ \cup {oid}]
      done == [asked EXCEPT
                 !.client.venue = VenueCancel(@, oid),
                 !.orders[ref].status = "CANCELLED",
                 !.orders[ref].error_message = "Order timeout"]
      after == IF cfault = "ok" THEN done ELSE asked
  IN  IF PendHas(after.engine.pending_orders, oid)
        THEN [w |-> [after EXCEPT !.engine.pending_orders = PendDel(@, oid)],
              out |-> "return"]
        ELSE [w |-> after, out |-> "raise"]

\* WaitWake with the loop condition "while order:" (no test of the time)
WaitWake_NoTimeout(w, fr, fault, cfault) ==
  WaitPoll(w, fr.oid, fr.ref, fault)

\* _wait_for_fill resumed after asyncio.sleep(1): the loop condition, then
\* one pass of the body or the timeout branch
WaitWake(w, fr, fault, cfault) ==
  IF fr.elapsed < fr.timeout
    THEN WaitPoll(w, fr.oid, fr.ref, fault)
    ELSE WaitTimeout(w, fr.oid, fr.ref, cfault)

\* _execute_live_order after _wait_for_fill returned the order (262-280)
LiveFinish(w, fr) ==
  LET o == w.orders[fr.ref]
  IN  [w |-> [w EXCEPT
         !.risk_manager =
            IF o.status = "FILLED"
              THEN UpdatePosition(@, fr.signal, o.filled_price,
                                  o.filled_size, fr.details)
              ELSE @,
         !.seen.position_updates =
            IF o.status = "FILLED" THEN Append(@, <<fr.ref, o.filled_price>>) ELSE @,
         !.engine.successful_orders = IF o.status = "FILLED" THEN @ + 1 ELSE @,
         !.engine.failed_orders = IF o.status = "FILLED" THEN @ ELSE @ + 1,
         !.engine.total_orders = @ + 1,
         !.engine.order_history = Append(@, fr.ref)],
       frame |-> IdleFrame(Ret("order", fr.ref))]

\* _execute_live_order's except branch (282-287)
LiveExcept(w) ==
  [w |-> [w EXCEPT !.engine.failed_orders = @ + 1],
   frame |-> IdleFrame(Ret("None", 0))]

\* _execute_live_order continued from a step r of _wait_for_fill
LiveAfterWait(r, fr) ==
  IF r.out = "return" THEN LiveFinish(r.w, fr)
  ELSE IF r.out = "raise" THEN LiveExcept(r.w)
  ELSE [w |-> r.w,
        frame |-> [fr EXCEPT !.pc = "wait", !.elapsed = @ + PollInterval]]

\* _execute_live_order up to its first suspension (201-260 and the first
\* pass of _wait_for_fill).  place is what create_order did, vp the price
\* the venue fills at, fault what the first get_order did.
_execute_live_order(w, signal, details, current_price, place, vp, fault) ==
  LET sent == [w EXCEPT !.client.client_order_ids =
                          Append(@, w.engine.total_orders)]
      oid == Len(w.client.venue) + 1
      ref == Len(w.orders) + 1
      placed == [sent EXCEPT
                   !.client.venue =
                      Append(@, [status |-> place,
                                 price |-> IF place = "FILLED" THEN vp ELSE None,
                                 size |-> details.size]),
                   !.orders = Append(@, NewOrder(oid, details, current_price,
                                                 "PENDING")),
                   !.engine.pending_orders = PendSet(@, oid, ref)]
      fr == [IdleFrame(NoRet) EXCEPT
               !.signal = signal, !.price = current_price, !.details = details,
               !.ref = ref, !.oid = oid, !.timeout = FillTimeout]
  IN  IF place = "raise" THEN LiveExcept(sent)
      ELSE IF place = "none" THEN [w |-> sent, frame |-> IdleFrame(Ret("None", 0))]
      ELSE LiveAfterWait(WaitPoll(placed, oid, ref, fault), fr)

\* _execute_paper_order: the code before the first sleep is empty
PaperStart(w, signal, details, current_price) ==
  [w |-> w,
   frame |-> [IdleFrame(NoRet) EXCEPT
                !.pc = "paper_place", !.signal = signal,
                !.price = current_price, !.details = details]]

\* _execute_paper_order between its two sleeps (152-161)
PaperPlace(w, fr) ==
  LET oid == w.engine.total_orders
      ref == Len(w.orders) + 1
  IN  [w |-> [w EXCEPT
         !.orders = Append(@, NewOrder(oid, fr.details, fr.price, "PENDING")),
         !.engine.pending_orders = PendSet(@, oid, ref)],
       frame |-> [fr EXCEPT !.pc = "paper_fill", !.oid = oid, !.ref = ref]]

\* price * (1 + 0.001) for a buy, price * (1 - 0.001) for a sell
PaperFillPrice(signal, current_price) ==
  (current_price * (IF signal = "BUY" THEN 1001 ELSE 999)) \div 1000

\* _execute_paper_order after the second sleep (166-196)
PaperFill(w, fr) ==
  LET fill_price == PaperFillPrice(fr.signal, fr.price)
      filled == [w EXCEPT
                   !.orders[fr.ref].status = "FILLED",
                   !.orders[fr.ref].filled_price = fill_price,
                   !.orders[fr.ref].filled_size = fr.details.size,
                   !.risk_manager = UpdatePosition(@, fr.signal, fill_price,
                                                   fr.details.size, fr.details),
                   !.seen.position_updates = Append(@, <<fr.ref, fill_price>>)]
  IN  IF PendHas(filled.engine.pending_orders, fr.oid)
        THEN [w |-> [filled EXCEPT
                !.engine.pending_orders = PendDel(@, fr.oid),
                !.engine.total_orders = @ + 1,
                !.engine.successful_orders = @ + 1,
                !.engine.order_history = Append(@, fr.ref)],
              frame |-> IdleFrame(Ret("order", fr.ref))]
        ELSE [w |-> filled, frame |-> IdleFrame(Ret("raised", 0))]

\* execute_signal that counts a rejected signal as a failed order
execute_signal_RejectCounted(w, m, signal, current_price, signal_strength, place, vp, fault) ==
  LET order_details == calculate_order_details(w.risk_manager, signal,
                                               current_price, signal_strength)
  IN  IF ~can_trade(m, w.risk_manager, signal, current_price).allowed
        THEN [w |-> [w EXCEPT !.engine.failed_orders = @ + 1],
              frame |-> IdleFrame(Ret("None", 0))]
      ELSE IF order_details = NoDetails
        THEN [w |-> w, frame |-> IdleFrame(Ret("None", 0))]
      ELSE IF m = "test"
        THEN _execute_test_order(w, signal, order_details, current_price)
      ELSE IF m = "paper"
        THEN PaperStart(w, signal, order_details, current_price)
      ELSE _execute_live_order(w, signal, order_details, current_price,
                               place, vp, fault)

\* execute_signal up to its first suspension (80-106)
execute_signal(w, m, signal, current_price, signal_strength, place, vp, fault) ==
  LET order_details == calculate_order_details(w.risk_manager, signal,
                                               current_price, signal_strength)
  IN  IF ~can_trade(m, w.risk_manager, signal, current_price).allowed
        THEN [w |-> w, frame |-> IdleFrame(Ret("None", 0))]
      ELSE IF order_details = NoDetails
        THEN [w |-> w, frame |-> IdleFrame(Ret("None", 0))]
      ELSE IF m = "test"
        THEN _execute_test_order(w, signal, order_details, current_price)
      ELSE IF m = "paper"
        THEN PaperStart(w, signal, order_details, current_price)
      ELSE _execute_live_order(w, signal, order_details, current_price,
                               place, vp, fault)

\* execute_signal got past admission and sizing
Admitted(w, m, signal, current_price, signal_strength) ==
  /\ can_trade(m, w.risk_manager, signal, current_price).allowed
  /\ calculate_order_details(w.risk_manager, signal, current_price,
                             signal_strength) # NoDetails

\* _wait_for_fill that goes to the timeout branch for an order id that is
\* not in pending_orders
_wait_for_fill_AbsentCancels(w, order_id, fault) ==
  LET ref == PendGet(w.engine.pending_orders, order_id)
  IN  IF ref = 0
        THEN [w |-> [w EXCEPT !.client.cancel_requests = @ \cup {order_id}],
              out |-> "none"]
        ELSE WaitPoll(w, order_id, ref, fault)

\* _wait_for_fill from its call to its first suspension or its return
\* (engine.py 291-327 and 340); every timeout the program passes is
\* positive, so the loop condition holds at first for an order that is
\* there.  out = "none": the call returned None.
_wait_for_fill(w, order_id, fault) ==
  LET ref == PendGet(w.engine.pending_orders, order_id)
  IN  IF ref = 0 THEN [w |-> w, out |-> "none"]
      ELSE WaitPoll(w, order_id, ref, fault)

\* check_pending_orders from the order id at the head of ids on, up to the
\* next suspension: _wait_for_fill(order_id, timeout=1) for each id of the
\* snapshot of the keys; faults[i] is what get_order does for ids[i].
RECURSIVE RunIds(_, _, _)
RunIds(w, ids, faults) ==
  IF ids = <<>> THEN [w |-> w, frame |-> IdleFrame(Ret("None", 0))]
  ELSE
    LET oid == Head(ids)
        ref == PendGet(w.engine.pending_orders, oid)
        r == _wait_for_fill(w, oid, Head(faults))
    IN  IF r.out \in {"none", "return"} THEN RunIds(r.w, Tail(ids), Tail(faults))
        ELSE [w |-> r.w,
              frame |-> [IdleFrame(NoRet) EXCEPT
                           !.pc = "wait", !.oid = oid, !.ref = ref,
                           !.elapsed = PollInterval, !.timeout = CheckTimeout,
                           !.ids = Tail(ids)]]

\* check_pending_orders continued from a step r of _wait_for_fill; an
\* exception leaves check_pending_orders and is caught in trading_loop
CheckAfterWait(r, fr, faults) ==
  IF r.out = "return" THEN RunIds(r.w, fr.ids, faults)
  ELSE IF r.out = "raise" THEN [w |-> r.w, frame |-> IdleFrame(Ret("raised", 0))]
  ELSE [w |-> r.w, frame |-> [fr EXCEPT !.elapsed = @ + PollInterval]]

\* ------------------------------------------------------------- the bot
World ==
  [risk_manager |-> risk_manager, engine |-> engine, orders |-> orders,
   client |-> client, seen |-> seen]

SetWorld(w) ==
  /\ risk_manager' = w.risk_manager
  /\ engine' = w.engine
  /\ orders' = w.orders
  /\ client' = w.client
  /\ seen' = w.seen

\* last tells what the step just taken returned to its caller, when that
\* step ended a call of execute_signal or check_pending_orders: the task, the
\* kind of return ("None", "order" with the object ref, "raised") and, for
\* execute_signal, whether the call got past admission and sizing.
\* For a call of process it is the Signal returned (kind) and len(candles)
\* (ref).
NoLast == [task |-> "none", kind |-> "-", ref |-> 0, admitted |-> FALSE]

\* trading_loop sleeps between two calls of check_pending_orders: 1 s
\* ("pause", main.py 83), 5 s after an exception ("pause5", main.py 87)
Rest(t, fr) ==
  IF t = "loop" /\ fr.pc = "idle"
    THEN [IdleFrame(NoRet) EXCEPT
            !.pc = IF fr.ret.kind = "raised" THEN "pause5" ELSE "pause"]
    ELSE [fr EXCEPT !.ret = NoRet]

\* timers holds the tasks suspended in asyncio.sleep in the order their
\* sleeps end: the event loop wakes the head first.
Without(q, t) == SelectSeq(q, LAMBDA x : x # t)

InsertAt(q, i, t) == SubSeq(q, 1, i - 1) \o <<t>> \o SubSeq(q, i, Len(q))

\* Where a task that goes to sleep at pc enters q.  Every sleep lasts 1 s
\* but two: a sleep of 1 s ends after all those begun before it, save for
\* the 5 s sleep of trading_loop when nothing longer was begun after that;
\* the 0.5 s sleep of _execute_paper_order may end before sleeps begun
\* earlier; the 5 s sleep ends after all those begun before it.
Slots(q, pc) ==
  IF pc = "paper_place" THEN 1..(Len(q) + 1)
  ELSE IF pc # "pause5" /\ q # <<>> /\ q[Len(q)] = "loop"
          /\ tasks["loop"].pc = "pause5"
    THEN {Len(q), Len(q) + 1}
  ELSE {Len(q) + 1}

\* the orders in which the sleeps end once task t has run up to pc
Arm(q, t, pc) ==
  IF pc = "idle" THEN {q} ELSE {InsertAt(q, i, t) : i \in Slots(q, pc)}

\* the event loop resumes task t: its sleep is the first to end
Wakes(t) == timers # <<>> /\ Head(timers) = t

\* Task t ran up to its next suspension or to its end, with result r.
Finish(t, r, admitted) ==
  /\ SetWorld(r.w)
  /\ tasks' = [tasks EXCEPT ![t] = Rest(t, r.frame)]
  /\ timers' \in Arm(Without(timers, t), t, Rest(t, r.frame).pc)
  /\ last' = IF r.frame.pc = "idle"
               THEN [task |-> t, kind |-> r.frame.ret.kind, ref |-> r.frame.ret.ref,
                     admitted |-> admitted]
               ELSE NoLast

\* what the gateway may do in a call of execute_signal: it is called in
\* live mode only, and only when the call got past admission and sizing
PlaceChoices(adm) == IF mode = "live" /\ adm THEN PlaceOutcomes ELSE {"none"}
FaultChoices(adm) == IF mode = "live" /\ adm THEN Faults ELSE {"none"}
FillPrices(adm) == IF mode = "live" /\ adm THEN Prices ELSE {None}

\* the admitted calls of execute_signal a run explores
CallBudget == IF mode = "live" THEN MaxLiveCalls ELSE MaxCalls

Init ==
  /\ mode \in Modes
  /\ risk_manager = set_balance(RiskManagerInit, InitialBalance)
  /\ engine = EngineInit
  /\ orders = <<>>
  /\ client = ClientInit
  /\ seen = SeenInit
  /\ tasks = [t \in Tasks |-> IdleFrame(NoRet)]
  /\ timers = <<>>
  /\ calls = 0
  /\ last = NoLast
  /\ signal_processor = SignalProcessorInit

\* The tasks of the ticker messages are interchangeable: a new message gets
\* the first task that is free.
FreeWsTask(t) ==
  /\ tasks[t].pc = "idle"
  /\ t = "ws2" => tasks["ws1"].pc # "idle"

\* TradingBot.on_price_update in a task of its own (main.py 89-95)
OnPriceUpdate(t, price) ==
  /\ FreeWsTask(t)
  /\ calls < CallBudget
  /\ LET w1 == [World EXCEPT !.risk_manager = update_position(@, price)]
         adm == Admitted(w1, mode, "SELL", price, 100)
     IN  IF update_position_signal(risk_manager, price) = "SELL"
           THEN \E place \in PlaceChoices(adm), vp \in FillPrices(adm),
                     fault \in FaultChoices(adm) :
                  /\ Finish(t, execute_signal(w1, mode, "SELL", price, 100,
                                              place, vp, fault), adm)
                  /\ calls' = IF adm THEN calls + 1 ELSE calls
           ELSE /\ SetWorld(w1)
                /\ last' = NoLast
                /\ UNCHANGED <<tasks, timers, calls>>
  /\ UNCHANGED <<mode, signal_processor>>

\* TradingBot.on_candle_update (main.py 97-131); signal and signal_strength
\* are what SignalProcessor gave for the candles, price the latest price
OnCandleUpdate(signal, price, strength) ==
  /\ tasks["candle"].pc = "idle"
  /\ calls < CallBudget
  /\ LET adm == Admitted(World, mode, signal, price, strength)
     IN  IF signal # "HOLD"
           THEN \E place \in PlaceChoices(adm), vp \in FillPrices(adm),
                     fault \in FaultChoices(adm) :
                  /\ Finish("candle", execute_signal(World, mode, signal, price,
                                                     strength, place, vp, fault), adm)
                  /\ calls' = IF adm THEN calls + 1 ELSE calls
           ELSE /\ last' = NoLast
                /\ UNCHANGED <<risk_manager, engine, orders, client, tasks, timers,
                             calls, seen>>
  /\ UNCHANGED <<mode, signal_processor>>

\* _execute_paper_order resumed after asyncio.sleep(0.5)
PaperPlaceStep(t) ==
  /\ tasks[t].pc = "paper_place"
  /\ Wakes(t)
  /\ Finish(t, PaperPlace(World, tasks[t]), TRUE)
  /\ UNCHANGED <<mode, signal_processor, calls>>

\* _execute_paper_order resumed after asyncio.sleep(1.0)
PaperFillStep(t) ==
  /\ tasks[t].pc = "paper_fill"
  /\ Wakes(t)
  /\ Finish(t, PaperFill(World, tasks[t]), TRUE)
  /\ UNCHANGED <<mode, signal_processor, calls>>

\* _execute_live_order's _wait_for_fill resumed after asyncio.sleep(1)
LiveWake(t) ==
  /\ tasks[t].pc = "wait"
  /\ Wakes(t)
  /\ \E fault \in Faults, cfault \in CancelFaults :
       Finish(t, LiveAfterWait(WaitWake(World, tasks[t], fault, cfault), tasks[t]),
              TRUE)
  /\ UNCHANGED <<mode, signal_processor, calls>>

\* trading_loop: check_pending_orders called (main.py 70-73), when the
\* task starts and after each of its sleeps
CheckPendingOrders ==
  /\ \/ tasks["loop"].pc = "idle"
     \/ tasks["loop"].pc \in {"pause", "pause5"} /\ Wakes("loop")
  /\ LET ids == PendKeys(engine.pending_orders)
     IN  \E faults \in [1..Len(ids) -> Faults] :
           Finish("loop", RunIds(World, ids, faults), FALSE)
  /\ UNCHANGED <<mode, signal_processor, calls>>

\* check_pending_orders' _wait_for_fill resumed after asyncio.sleep(1)
CheckWake ==
  /\ tasks["loop"].pc = "wait"
  /\ Wakes("loop")
  /\ \E fault \in Faults, cfault \in CancelFaults,
        faults \in [1..Len(tasks["loop"].ids) -> Faults] :
       Finish("loop", CheckAfterWait(WaitWake(World, tasks["loop"], fault, cfault),
                                     tasks["loop"], faults), FALSE)
  /\ UNCHANGED <<mode, signal_processor, calls>>

\* the venue fills an open order at price p
VenueFill(oid, p) ==
  /\ oid \in DOMAIN client.venue
  /\ client.venue[oid].status = "OPEN"
  /\ client' = [client EXCEPT !.venue[oid].status = "FILLED",
                              !.venue[oid].price = p]
  /\ last' = NoLast
  /\ UNCHANGED <<mode, signal_processor, risk_manager, engine, orders, tasks, timers, calls, seen>>

\* the venue cancels or expires an open order on its own
VenueEnd(oid, s) ==
  /\ oid \in DOMAIN client.venue
  /\ client.venue[oid].status = "OPEN"
  /\ client' = [client EXCEPT !.venue[oid].status = s]
  /\ last' = NoLast
  /\ UNCHANGED <<mode, signal_processor, risk_manager, engine, orders, tasks, timers, calls, seen>>

\* the wall clock (datetime.utcnow) advances by a tick
Tick ==
  /\ risk_manager.since_trade # Never
  /\ risk_manager.since_trade < CooldownPeriod * TicksPerSecond
  /\ risk_manager' = [risk_manager EXCEPT !.since_trade = @ + 1]
  /\ last' = NoLast
  /\ UNCHANGED <<mode, signal_processor, engine, orders, client, tasks, timers, calls, seen>>

Next ==
  \/ \E t \in WsTasks, p \in Prices : OnPriceUpdate(t, p)
  \/ \E s \in {"BUY", "SELL", "HOLD"}, p \in Prices, k \in Strengths :
       OnCandleUpdate(s, p, k)
  \/ \E t \in ExecTasks : PaperPlaceStep(t)
  \/ \E t \in ExecTasks : PaperFillStep(t)
  \/ \E t \in ExecTasks : LiveWake(t)
  \/ CheckPendingOrders
  \/ CheckWake
  \/ \E oid \in DOMAIN client.venue, p \in Prices : VenueFill(oid, p)
  \/ \E oid \in DOMAIN client.venue, s \in {"CANCELLED", "EXPIRED"} : VenueEnd(oid, s)
  \/ Tick

Spec == Init /\ [][Next]_vars

\* ------------------------------------------- live mode, few orders
\* The fill-wait of a live order is between the call of execute_signal
\* that placed it, check_pending_orders and the venue.  This specification
\* is the bot in live mode with at most MaxWaitedCalls admitted calls of
\* execute_signal.
LiveInit == Init /\ mode = "live"

LivePriceUpdate(t, price) == OnPriceUpdate(t, price) /\ calls' <= MaxWaitedCalls

LiveCandleUpdate(signal, price, strength) ==
  OnCandleUpdate(signal, price, strength) /\ calls' <= MaxWaitedCalls

LiveNext ==
  \/ \E t \in WsTasks, p \in Prices : LivePriceUpdate(t, p)
  \/ \E s \in {"BUY", "SELL", "HOLD"}, p \in Prices, k \in Strengths :
       LiveCandleUpdate(s, p, k)
  \/ \E t \in ExecTasks : LiveWake(t)
  \/ CheckPendingOrders
  \/ CheckWake
  \/ \E oid \in DOMAIN client.venue, p \in Prices : VenueFill(oid, p)
  \/ \E oid \in DOMAIN client.venue, s \in {"CANCELLED", "EXPIRED"} : VenueEnd(oid, s)
  \/ Tick

LiveSpec == LiveInit /\ [][LiveNext]_vars

\* The event loop of asyncio resumes every task whose sleep has ended.
FairLiveSpec ==
  /\ LiveSpec
  /\ WF_vars(\E t \in ExecTasks : LiveWake(t))
  /\ WF_vars(CheckPendingOrders)
  /\ WF_vars(CheckWake)

\* ------------------------------------- execute_signal, one call at a time
\* The admission rules of can_trade depend on the RiskManager alone.  This
\* specification runs every call of execute_signal to its end before the
\* next begins (the venue fills each live order at once, at the price
\* asked), from every balance ExecutionEngine.initialize may have found.
Balances == {0, 50, InitialBalance}

\* execute_signal from its call to its return
RunToEnd(w, m, signal, current_price, signal_strength) ==
  LET r == execute_signal(w, m, signal, current_price, signal_strength,
                          "FILLED", current_price, "ok")
      placed == PaperPlace(r.w, r.frame)
  IN  IF r.frame.pc = "paper_place"
        THEN PaperFill(placed.w, placed.frame)
        ELSE r

\* the admitted calls a run explores: in test mode can_trade admits every
\* call, so that fewer are needed there
SeqBudget == IF mode = "test" THEN MaxCalls ELSE MaxSeqCalls

SeqInit ==
  /\ mode \in Modes
  /\ \E b \in Balances : risk_manager = set_balance(RiskManagerInit, b)
  /\ engine = EngineInit
  /\ orders = <<>>
  /\ client = ClientInit
  /\ seen = SeenInit
  /\ tasks = [t \in Tasks |-> IdleFrame(NoRet)]
  /\ timers = <<>>
  /\ calls = 0
  /\ last = NoLast
  /\ signal_processor = SignalProcessorInit

\* execute_signal called with any Signal (on_candle_update calls it with
\* BUY and SELL) and run to its end
SeqSignal(signal, price, strength) ==
  /\ calls < SeqBudget
  /\ LET adm == Admitted(World, mode, signal, price, strength)
         r == RunToEnd(World, mode, signal, price, strength)
     IN  /\ SetWorld(r.w)
         /\ last' = [task |-> "candle", kind |-> r.frame.ret.kind,
                     ref |-> r.frame.ret.ref, admitted |-> adm]
         /\ calls' = IF adm THEN calls + 1 ELSE calls
  /\ UNCHANGED <<mode, signal_processor, tasks, timers>>

\* on_price_update (main.py 89-95) run to its end
SeqPriceUpdate(price) ==
  /\ calls < SeqBudget
  /\ LET w1 == [World EXCEPT !.risk_manager = update_position(@, price)]
         adm == Admitted(w1, mode, "SELL", price, 100)
         r == RunToEnd(w1, mode, "SELL", price, 100)
     IN  IF update_position_signal(risk_manager, price) = "SELL"
           THEN /\ SetWorld(r.w)
                /\ last' = [task |-> "ws1", kind |-> r.frame.ret.kind,
                            ref |-> r.frame.ret.ref, admitted |-> adm]
                /\ calls' = IF adm THEN calls + 1 ELSE calls
           ELSE /\ SetWorld(w1)
                /\ last' = NoLast
                /\ UNCHANGED calls
  /\ UNCHANGED <<mode, signal_processor, tasks, timers>>

\* _wait_for_fill called for the id of an order that execute_signal has
\* taken out of the pending set already (check_pending_orders goes through
\* a snapshot of the keys, engine.py 344)
SeqWaitForFill(order_id) ==
  /\ ~PendHas(engine.pending_orders, order_id)
  /\ \E fault \in Faults :
       LET r == _wait_for_fill(World, order_id, fault)
       IN  /\ SetWorld(r.w)
           /\ last' = [task |-> "loop",
                       kind |-> IF r.out = "none" THEN "None" ELSE "-",
                       ref |-> 0, admitted |-> FALSE]
  /\ UNCHANGED <<mode, signal_processor, tasks, timers, calls>>

SeqNext ==
  \/ \E s \in {"BUY", "SELL", "HOLD"}, p \in Prices, k \in Strengths :
       SeqSignal(s, p, k)
  \/ \E p \in Prices : SeqPriceUpdate(p)
  \/ \E r \in DOMAIN orders : SeqWaitForFill(orders[r].order_id)
  \/ Tick

SeqSpec == SeqInit /\ [][SeqNext]_vars

\* ------------------------------------------- SignalProcessor.process
\* on_candle_update calls process for every candle update (main.py 101).
\* This specification is the SignalProcessor alone, called with candle
\* sequences around the required length and with indicators on both sides
\* of every threshold of _generate_signal.
CandleCounts == {RequiredCandles - 1, RequiredCandles}
RsiValues == {0, 25, 35, 50, 65, 75, 100}
\* <<close, bb_lower, bb_upper>>
Bands ==
  {<<49000, 49000, 51000>>, <<49500, 49000, 51000>>, <<50000, 49000, 51000>>,
   <<50500, 49000, 51000>>, <<51000, 49000, 51000>>, <<50000, 50000, 50000>>}
\* <<current volume, average volume>>
Volumes == {<<1500, 1000>>, <<300, 1000>>, <<1000, 0>>}

\* RSI thresholds validate_config lets through (0 <= rsi_oversold <
\* rsi_overbought <= 100): the defaults, both below 40, both above 60, and
\* the two ends of the range with the other threshold at 40 and at 60
Configs ==
  {DefaultConfig,
   [rsi_oversold |-> 10, rsi_overbought |-> 20],
   [rsi_oversold |-> 70, rsi_overbought |-> 80],
   [rsi_oversold |-> 0, rsi_overbought |-> 40],
   [rsi_oversold |-> 60, rsi_overbought |-> 100]}

\* the SignalProcessor does not read the trading mode
ProcInit ==
  /\ mode = "paper"
  /\ risk_manager = set_balance(RiskManagerInit, InitialBalance)
  /\ engine = EngineInit
  /\ orders = <<>>
  /\ client = ClientInit
  /\ seen = SeenInit
  /\ tasks = [t \in Tasks |-> IdleFrame(NoRet)]
  /\ timers = <<>>
  /\ calls = 0
  /\ last = NoLast
  /\ \E config \in Configs : signal_processor = SignalProcessorFor(config)

\* process called once: last is the call's candle count and its Signal
Process(len, rsi, band, volume) ==
  /\ Len(signal_processor.signal_history) < MaxHistory
  /\ LET indicators == _calculate_indicators(rsi, band[3], band[2], band[1],
                                             volume[1], volume[2])
         r == process(signal_processor, len, indicators)
     IN  /\ signal_processor' = r.sp
         /\ last' = [task |-> "process", kind |-> r.signal, ref |-> len,
                     admitted |-> FALSE]
  /\ UNCHANGED <<mode, risk_manager, engine, orders, client, tasks, timers,
                 calls, seen>>

\* get_signal_strength called with the indicators of the call of process
\* that has just given a BUY or SELL (main.py 103-111), by on_candle_update
\* with the float64 of process or by a caller with Python floats: last is
\* the strength in whole percent, or that the call raised
SignalStrength(rsi, band, volume, numbers) ==
  /\ last.task = "process"
  /\ last.kind # "HOLD"
  /\ LET h == signal_processor.signal_history
         before == [signal_processor EXCEPT
                      !.signal_history = SubSeq(h, 1, Len(h) - 1)]
         indicators == _calculate_indicators(rsi, band[3], band[2], band[1],
                                             volume[1], volume[2])
         r == get_signal_strength(signal_processor, indicators, numbers)
     IN  /\ _generate_signal(before, indicators) = last.kind
         /\ last' = [task |-> "strength",
                     kind |-> IF r.raised THEN "raised" ELSE "-",
                     ref |-> IF r.raised THEN 0
                             ELSE (r.value[1] * 100) \div r.value[2],
                     admitted |-> FALSE]
  /\ UNCHANGED <<mode, signal_processor, risk_manager, engine, orders, client,
                 tasks, timers, calls, seen>>

ProcNext ==
  \/ \E len \in CandleCounts, rsi \in RsiValues, band \in Bands,
        volume \in Volumes : Process(len, rsi, band, volume)
  \/ \E rsi \in RsiValues, band \in Bands, volume \in Volumes,
        numbers \in Numbers : SignalStrength(rsi, band, volume, numbers)

ProcSpec == ProcInit /\ [][ProcNext]_vars

\* ------------------------------------------------------------ claims
TerminalStatus == {"FILLED", "CANCELLED", "FAILED"}

\* C1: an Order whose status has become FILLED, CANCELLED or FAILED never
\* changes status again, whichever of execute_signal, its fill-wait and
\* check_pending_orders takes the step.
C1_TerminalStatusFinal ==
  [][\A r \in DOMAIN orders :
       orders[r].status \in TerminalStatus => orders'[r].status = orders[r].status]_vars

\* C2: the trade history strictly alternates 'open', 'close', 'open', ...
\* starting with 'open': no Position is opened while another is open.
C2_TradeHistoryAlternates ==
  \A i \in DOMAIN risk_manager.trade_history :
    risk_manager.trade_history[i].type = (IF i % 2 = 1 THEN "open" ELSE "close")

InFlight == {t \in ExecTasks : tasks[t].pc # "idle"}

\* C4: at most one execute_signal invocation is in flight at any time.
C4_SingleFlight == Cardinality(InFlight) <= 1

Count(seq, x) == Cardinality({i \in DOMAIN seq : seq[i][1] = x})

\* no task still works on Order object r
Settled(r) == \A t \in Tasks : tasks[t].pc # "idle" => tasks[t].ref # r

\* C5: every pending live order a get_order poll found FILLED (in the
\* fill-wait of execute_signal or in check_pending_orders) has left the
\* pending set, and open_position / close_position is called for it exactly
\* once, with the fill price the venue reported: never twice, and once by
\* the time no task works on the order any more.
C5_FillUpdatesPosition ==
  \A r \in seen.polled_filled :
    /\ ~PendHas(engine.pending_orders, orders[r].order_id)
    /\ Count(seen.position_updates, r) <= 1
    /\ Settled(r) => Count(seen.position_updates, r) = 1
    /\ \A i \in DOMAIN seen.position_updates :
         seen.position_updates[i][1] = r =>
           seen.position_updates[i][2] = client.venue[orders[r].order_id].price

\* task t is suspended in _wait_for_fill and its timeout has passed
AtTimeout(t) ==
  /\ tasks[t].pc = "wait"
  /\ tasks[t].elapsed >= tasks[t].timeout

\* task t takes this step
Steps(t) == tasks'[t] # tasks[t]

\* C6: when _wait_for_fill reaches its timeout for an order still pending,
\* a cancel request for the order id goes to the gateway and, whether that
\* call succeeds or raises, the order ends CANCELLED with the timeout
\* message and out of the pending set.
C6_TimeoutCancels ==
  [][\A t \in Tasks :
       (AtTimeout(t) /\ Steps(t)
          /\ PendHas(engine.pending_orders, tasks[t].oid)
          /\ orders[tasks[t].ref].status = "PENDING")
       => /\ tasks[t].oid \in client'.cancel_requests
          /\ orders'[tasks[t].ref].status = "CANCELLED"
          /\ orders'[tasks[t].ref].error_message = "Order timeout"
          /\ ~PendHas(engine'.pending_orders, tasks[t].oid)]_vars

\* C7: execute_signal and check_pending_orders never raise to their caller,
\* and an order they return is FILLED or, on a failure path, CANCELLED.
C7_NeverRaises ==
  /\ last.kind # "raised"
  /\ last.kind = "order" => orders[last.ref].status \in {"FILLED", "CANCELLED"}

\* the Position without the unrealized PnL on_price_update refreshes before
\* it calls execute_signal
PositionCore(rm) == [rm.current_position EXCEPT !.unrealized_pnl = 0]

\* this step sent a create_order that gave no order id
SubmissionFailed ==
  /\ mode = "live"
  /\ Len(client'.client_order_ids) = Len(client.client_order_ids) + 1
  /\ Len(client'.venue) = Len(client.venue)

\* C8: in live mode a submission that yields no order id makes
\* execute_signal return no order and adds exactly one to failed_orders,
\* with pending set, order history and Position unchanged.
C8_FailedSubmissionCounted ==
  [][SubmissionFailed
       => /\ last'.kind = "None"
          /\ engine'.failed_orders = engine.failed_orders + 1
          /\ engine'.pending_orders = engine.pending_orders
          /\ engine'.order_history = engine.order_history
          /\ PositionCore(risk_manager') = PositionCore(risk_manager)]_vars

IsPrefix(a, b) == Len(a) <= Len(b) /\ \A i \in DOMAIN a : a[i] = b[i]

\* C9: order_history is append-only, every entry of it has a terminal
\* status, and every order that became FILLED or CANCELLED is in it exactly
\* once (as soon as no task works on the order any more).
C9_HistoryExact ==
  [][/\ IsPrefix(engine.order_history, engine'.order_history)
     /\ \A i \in DOMAIN engine'.order_history :
          orders'[engine'.order_history[i]].status \in {"FILLED", "CANCELLED"}
     /\ \A r \in DOMAIN orders' :
          (orders'[r].status \in {"FILLED", "CANCELLED"} /\ Settled(r)')
            => Cardinality({i \in DOMAIN engine'.order_history :
                              engine'.order_history[i] = r}) = 1]_vars

\* C10: while the fill-wait of an execute_signal is in progress for a live
\* order, a step of check_pending_orders leaves that order's status alone,
\* sends no cancel request for it and keeps it in the pending set.
C10_CheckLeavesWaitedOrder ==
  [][\A t \in ExecTasks :
       (mode = "live" /\ tasks[t].pc = "wait" /\ Steps("loop"))
       => /\ orders'[tasks[t].ref].status = orders[tasks[t].ref].status
          /\ (tasks[t].oid \in client'.cancel_requests
                => tasks[t].oid \in client.cancel_requests)
          /\ (PendHas(engine.pending_orders, tasks[t].oid)
                => PendHas(engine'.pending_orders, tasks[t].oid))]_vars

\* a price update made on_price_update call execute_signal in task t in this
\* step: the price was at or below stop_loss or at or above take_profit of
\* the open Position
ExitArrives(t) ==
  /\ tasks[t].pc = "idle"
  /\ tasks'[t].pc # "idle" \/ last'.task = t

\* the order task t works on is marked FILLED in this step
OrderFills(t) ==
  /\ tasks[t].pc # "idle"
  /\ tasks[t].ref # 0
  /\ orders[tasks[t].ref].status # "FILLED"
  /\ orders'[tasks[t].ref].status = "FILLED"

\* C11: a price update that arrives with a Position open and the price at
\* or below stop_loss or at or above take_profit gets its exit SELL
\* executed: execute_signal goes past admission, in test mode the Position
\* is closed when the handler returns, and in paper and live mode it is
\* closed when the sell order is filled.
C11_ExitExecuted ==
  [][\A t \in WsTasks :
       /\ ExitArrives(t)
            => /\ tasks'[t].pc # "idle" \/ last'.admitted
               /\ mode = "test" => ~HasPosition(risk_manager')
               /\ (last'.task = t /\ last'.kind = "order"
                     /\ orders'[last'.ref].status = "FILLED")
                    => ~HasPosition(risk_manager')
       /\ (tasks[t].signal = "SELL" /\ OrderFills(t))
            => ~HasPosition(risk_manager')]_vars

\* less than the cooldown period has passed since the last trade
InCooldown(rm) ==
  /\ rm.since_trade # Never
  /\ rm.since_trade < CooldownPeriod * TicksPerSecond

\* the whole seconds left of the cooldown: rm.since_trade ticks have passed
SecondsLeft(rm) ==
  CHOOSE n \in 0..CooldownPeriod :
    /\ n * TicksPerSecond <= CooldownPeriod * TicksPerSecond - rm.since_trade
    /\ (n + 1) * TicksPerSecond > CooldownPeriod * TicksPerSecond - rm.since_trade

\* a call of execute_signal begins in task t in this step
CallBegins(t) ==
  /\ tasks[t].pc = "idle"
  /\ tasks'[t].pc # "idle" \/ last'.task = t

C13_HoldDoesNothing ==
  \A p \in Prices, k \in Strengths, place \in PlaceOutcomes, fault \in Faults :
    execute_signal(World, mode, "HOLD", p, k, place, p, fault)
      = [w |-> World, frame |-> IdleFrame(Ret("None", 0))]

\* C13 witness: in test mode with a Position open, where BUY and SELL are
\* both executed, a call of execute_signal came back with no order: HOLD,
\* which can_trade let through
C13_Witness ==
  /\ mode = "test"
  /\ HasPosition(risk_manager)
  /\ last.task = "candle" /\ last.kind = "None" /\ ~last.admitted
  /\ \A p \in Prices : can_trade(mode, risk_manager, "HOLD", p).allowed

\* C14: whenever can_trade rejects the signal or calculate_order_details
\* gives the empty record, execute_signal returns no order without
\* suspending and changes nothing: the counters, pending set and order
\* history of the engine, the Position, balances and last trade time of the
\* RiskManager, the Order objects and the gateway are as before.
C14_RejectionChangesNothing ==
  \A sig \in {"BUY", "SELL", "HOLD"}, p \in Prices, k \in Strengths :
    (\/ ~can_trade(mode, risk_manager, sig, p).allowed
     \/ calculate_order_details(risk_manager, sig, p, k) = NoDetails)
      => \A place \in PlaceOutcomes, fault \in Faults :
           execute_signal(World, mode, sig, p, k, place, p, fault)
             = [w |-> World, frame |-> IdleFrame(Ret("None", 0))]

\* C14 witness: after a round trip in paper or live mode, the cooldown
\* over and no Position open, a SELL was turned down by can_trade and
\* execute_signal returned no order
C14_Witness ==
  /\ mode \in {"paper", "live"}
  /\ ~HasPosition(risk_manager)
  /\ Len(risk_manager.trade_history) = 2
  /\ last.task = "candle" /\ last.kind = "None" /\ ~last.admitted
  /\ \A p \in Prices :
       can_trade(mode, risk_manager, "SELL", p).reason = "No position to sell"

\* C15: in test mode, for every state, price and strength, a BUY or SELL
\* that gets past can_trade and has order details makes execute_signal
\* return, without suspending, an order that is FILLED with filled_price
\* the given price and filled_size the sized amount; the Position is then
\* open at that price and size (BUY) or closed (SELL), the order is the
\* new last entry of order_history and is not and was not in the pending
\* set, and total_orders and successful_orders are one more than before.
C15_TestModeFillsAtOnce ==
  \A sig \in {"BUY", "SELL"}, p \in Prices, k \in Strengths :
    (mode = "test" /\ Admitted(World, mode, sig, p, k)) =>
      LET r == execute_signal(World, mode, sig, p, k, "none", None, "none")
          ref == r.frame.ret.ref
          o == r.w.orders[ref]
          size == calculate_order_details(risk_manager, sig, p, k).size
      IN  /\ r.frame = IdleFrame(Ret("order", ref))
          /\ ref = Len(orders) + 1
          /\ o.status = "FILLED" /\ o.filled_price = p /\ o.filled_size = size
          /\ IF sig = "BUY"
               THEN /\ r.w.risk_manager.current_position.status = "OPEN"
                    /\ r.w.risk_manager.current_position.entry_price = p
                    /\ r.w.risk_manager.current_position.size = size
               ELSE ~HasPosition(r.w.risk_manager)
          /\ r.w.engine.order_history = Append(engine.order_history, ref)
          /\ r.w.engine.pending_orders = engine.pending_orders
          /\ ~PendHas(engine.pending_orders, o.order_id)
          /\ r.w.engine.total_orders = engine.total_orders + 1
          /\ r.w.engine.successful_orders = engine.successful_orders + 1
          /\ r.w.engine.failed_orders = engine.failed_orders

\* C15 witness: in test mode a SELL has just come back with its order
\* FILLED, the Position closed and the order at the end of order_history
C15_Witness ==
  /\ mode = "test"
  /\ last.task = "candle" /\ last.kind = "order" /\ last.admitted
  /\ orders[last.ref].side = "sell"
  /\ orders[last.ref].status = "FILLED"
  /\ ~HasPosition(risk_manager)
  /\ engine.order_history[Len(engine.order_history)] = last.ref

\* task t is in _execute_paper_order's fill delay (asyncio.sleep(1.0))
InFillDelay(t) == tasks[t].pc = "paper_fill"

\* task t comes out of the fill delay in this step
FillDelayEnds(t) == InFillDelay(t) /\ tasks'[t].pc # "paper_fill"

\* C16: in paper mode the order of a call that is in its fill delay is
\* PENDING and in the pending set; the step that ends the delay makes it
\* FILLED at price*1.001 (BUY) or price*0.999 (SELL), opens or closes the
\* Position at that price, removes the order from the pending set and
\* appends it to order_history; and the Position is opened or closed by
\* no other step.
C16_PaperHeldThenFilled ==
  [][mode = "paper" =>
      /\ \A t \in ExecTasks :
           /\ InFillDelay(t) =>
                /\ orders[tasks[t].ref].status = "PENDING"
                /\ PendGet(engine.pending_orders, tasks[t].oid) = tasks[t].ref
           /\ FillDelayEnds(t) =>
                LET fr == tasks[t]
                    o == orders'[fr.ref]
                    fill_price == PaperFillPrice(fr.signal, fr.price)
                IN  /\ o.status = "FILLED" /\ o.filled_price = fill_price
                    /\ IF fr.signal = "BUY"
                         THEN /\ risk_manager'.current_position.status = "OPEN"
                              /\ risk_manager'.current_position.entry_price
                                   = fill_price
                         ELSE ~HasPosition(risk_manager')
                    /\ ~PendHas(engine'.pending_orders, fr.oid)
                    /\ engine'.order_history
                         = Append(engine.order_history, fr.ref)
      /\ PositionCore(risk_manager') # PositionCore(risk_manager) =>
           \E t \in ExecTasks : FillDelayEnds(t)]_vars

\* _wait_for_fill may poll order id oid for the Order object ref in this
\* state: a task is inside the wait loop for it, or check_pending_orders
\* would begin a wait for it
Polled(oid, ref) ==
  \/ PendGet(engine.pending_orders, oid) = ref
  \/ \E t \in Tasks : /\ tasks[t].pc = "wait"
                       /\ tasks[t].oid = oid /\ tasks[t].ref = ref
                       /\ tasks[t].elapsed < tasks[t].timeout

\* C17: in every state, a status poll of _wait_for_fill that finds the
\* order CANCELLED or EXPIRED at the venue leaves the Order object
\* CANCELLED with the error message "Order CANCELLED" or "Order EXPIRED"
\* after the venue's status and the order id out of the pending set, and
\* changes nothing of the RiskManager (Position and balances), neither in
\* the poll nor in what _execute_live_order does with the returned order.
C17_VenueCancelMarksCancelled ==
  \A oid \in DOMAIN client.venue, ref \in DOMAIN orders :
    (/\ client.venue[oid].status \in {"CANCELLED", "EXPIRED"}
     /\ orders[ref].order_id = oid
     /\ Polled(oid, ref)) =>
      LET r == WaitPoll(World, oid, ref, "ok")
      IN  /\ r.w.orders[ref].status = "CANCELLED"
          /\ r.w.orders[ref].error_message =
                IF client.venue[oid].status = "CANCELLED"
                  THEN "Order CANCELLED" ELSE "Order EXPIRED"
          /\ ~PendHas(r.w.engine.pending_orders, oid)
          /\ r.w.risk_manager = risk_manager
          /\ \A t \in ExecTasks :
               (tasks[t].pc = "wait" /\ tasks[t].ref = ref) =>
                 LiveAfterWait(r, tasks[t]).w.risk_manager = risk_manager

\* C17 witness: a live order that expired at the venue has come back from
\* the fill-wait CANCELLED, named "Order EXPIRED", out of the pending set
C17_Witness ==
  /\ mode = "live"
  /\ last.task \in ExecTasks /\ last.kind = "order"
  /\ orders[last.ref].status = "CANCELLED"
  /\ orders[last.ref].error_message = "Order EXPIRED"
  /\ ~PendHas(engine.pending_orders, orders[last.ref].order_id)
  /\ ~HasPosition(risk_manager)

\* C18: in every state, for every order _wait_for_fill may poll, a poll
\* whose get_order raises changes nothing of the order, the pending set,
\* the engine, the gateway or the RiskManager and goes on to the sleep of
\* the poll interval; the task that polled is then still in the wait with
\* the same order, one poll interval later, and nothing was raised to the
\* caller.  So an order that was PENDING and pending before the error
\* is so after it.
C18_PollErrorKeepsWaiting ==
  \A ref \in DOMAIN orders :
    Polled(orders[ref].order_id, ref) =>
      LET r == WaitPoll(World, orders[ref].order_id, ref, "raise")
      IN  /\ r.out = "sleep"
          /\ r.w = [World EXCEPT !.seen.poll_raised = @ \cup {ref}]
          /\ \A t \in ExecTasks :
               (tasks[t].pc = "wait" /\ tasks[t].ref = ref) =>
                 LiveAfterWait(r, tasks[t]).frame =
                   [tasks[t] EXCEPT !.elapsed = @ + PollInterval]
          /\ (tasks["loop"].pc = "wait" /\ tasks["loop"].ref = ref) =>
               \A faults \in [1..Len(tasks["loop"].ids) -> Faults] :
                 CheckAfterWait(r, tasks["loop"], faults).frame =
                   [tasks["loop"] EXCEPT !.elapsed = @ + PollInterval]

\* C18 witness: a live call waits for its order after a poll of it raised;
\* the order is still PENDING and in the pending set
C18_Witness ==
  \E t \in ExecTasks :
    /\ mode = "live"
    /\ tasks[t].pc = "wait" /\ tasks[t].elapsed >= PollInterval
    /\ tasks[t].ref \in seen.poll_raised
    /\ orders[tasks[t].ref].status = "PENDING"
    /\ PendGet(engine.pending_orders, tasks[t].oid) = tasks[t].ref

\* a task between two calls: no call of execute_signal or of
\* check_pending_orders is running in it
Resting(t) == tasks[t].pc \in {"idle", "pause", "pause5"}

\* C19: a task inside _wait_for_fill has never waited longer than its
\* timeout; resumed with the timeout elapsed it makes no poll (what
\* get_order would do is of no effect), goes through the timeout branch
\* and leaves the wait for that order, by a return or by the KeyError of
\* its del; and every call of execute_signal and of check_pending_orders
\* that has begun comes to its end.
C19_WaitEnds ==
  /\ [](\A t \in Tasks :
          tasks[t].pc = "wait" =>
            /\ tasks[t].elapsed <= tasks[t].timeout
            /\ tasks[t].elapsed >= tasks[t].timeout =>
                 \A fault \in Faults, cfault \in CancelFaults :
                   LET r == WaitWake(World, tasks[t], fault, cfault)
                   IN  /\ r = WaitTimeout(World, tasks[t].oid, tasks[t].ref,
                                          cfault)
                       /\ r.out \in {"return", "raise"}
                       /\ r.w.seen.poll_raised = seen.poll_raised
                       /\ r.w.seen.polled_filled = seen.polled_filled)
  /\ \A t \in Tasks : ~Resting(t) ~> Resting(t)

\* C19 witness: a live call has come back from a fill-wait that ran into
\* its timeout after a poll that raised
C19_Witness ==
  /\ mode = "live"
  /\ last.task \in ExecTasks /\ last.kind = "order"
  /\ last.ref \in seen.poll_raised
  /\ orders[last.ref].error_message = "Order timeout"
  /\ tasks[last.task].pc = "idle"

\* this step takes the Order object ref out of the pending set
Removed(ref) ==
  /\ PendGet(engine.pending_orders, orders[ref].order_id) = ref
  /\ PendGet(engine'.pending_orders, orders[ref].order_id) # ref

\* a poll has found the Order object ref FILLED, CANCELLED or EXPIRED at
\* the venue (the venue never leaves such a status, so every later report
\* is terminal as well)
ReportedTerminal(ref, os, sn) ==
  \/ ref \in sn.polled_filled
  \/ os[ref].error_message \in {"Order CANCELLED", "Order EXPIRED"}

\* C20: a step that takes out of the pending set an order the gateway
\* knows and has not reported FILLED, CANCELLED or EXPIRED, not in this
\* step either, has sent a cancel request for that order id to the gateway
\* (cancel_orders was called, whether it succeeded or raised).
C20_CancelBeforeAbandon ==
  [][\A ref \in DOMAIN orders :
       (/\ Removed(ref)
        /\ VenueKnows(client, orders[ref].order_id)
        /\ ~ReportedTerminal(ref, orders', seen')) =>
         orders[ref].order_id \in client'.cancel_requests]_vars

\* C20 witness: a live order that no poll found terminal is out of the
\* pending set after its wait timed out, its cancel request sent
C20_Witness ==
  \E ref \in DOMAIN orders :
    /\ mode = "live"
    /\ ~ReportedTerminal(ref, orders, seen)
    /\ ~PendHas(engine.pending_orders, orders[ref].order_id)
    /\ orders[ref].order_id \in client.cancel_requests
    /\ orders[ref].error_message = "Order timeout"

\* C21: in every state, for every order id that is not in the pending set
\* and whatever the gateway would answer, _wait_for_fill returns None at
\* once, raises nothing and leaves the engine, the orders, the gateway
\* (no get_order, no cancel_orders) and the RiskManager as they were.
C21_AbsentOrderNoEffect ==
  \A order_id \in 0..(Len(orders) + 1), fault \in Faults :
    ~PendHas(engine.pending_orders, order_id) =>
      _wait_for_fill(World, order_id, fault) = [w |-> World, out |-> "none"]

\* C21 witness: _wait_for_fill has just returned None for the id of an
\* order that is in the history and not in the pending set
C21_Witness ==
  /\ last.task = "loop" /\ last.kind = "None"
  /\ engine.order_history # <<>>
  /\ ~PendHas(engine.pending_orders, orders[engine.order_history[1]].order_id)

\* position_updates entries that are calls of close_position (the engine
\* calls it for the fill of a sell order)
CloseCalls ==
  SelectSeq(seen.position_updates, LAMBDA u : orders[u[1]].side = "sell")

\* C22: in every state without a Position, close_position at any price
\* returns normally and leaves the whole RiskManager as it was: balance,
\* available balance, total PnL, peak balance, win rate, max drawdown,
\* time of the last trade and trade history.
C22_CloseWithoutPositionNoOp ==
  \A p \in Prices :
    ~HasPosition(risk_manager) => close_position(risk_manager, p) = risk_manager

\* C22 witness: close_position was called twice for one Position (two sell
\* orders filled); the trade history has the one close only
C22_Witness ==
  /\ Len(CloseCalls) = 2
  /\ Len(Closes(risk_manager.trade_history)) = 1
  /\ Len(risk_manager.trade_history) = 2
  /\ ~HasPosition(risk_manager)

\* the sum of the pnl of the entries of a sequence of trade-history entries
RECURSIVE SumPnl(_)
SumPnl(h) == IF h = <<>> THEN 0 ELSE Head(h).pnl + SumPnl(Tail(h))

\* this step appended a 'close' entry to the trade history
ClosedNow ==
  /\ Len(risk_manager'.trade_history) = Len(risk_manager.trade_history) + 1
  /\ risk_manager'.trade_history[Len(risk_manager'.trade_history)].type = "close"

\* C23: every step that appends a 'close' entry closes the Position that
\* was open and records pnl = size * (exit price - entry price) of that
\* Position, with its size; and after every step total_pnl is the sum of
\* the pnl of all 'close' entries of the trade history.
C23_PnlRoundTrip ==
  [][/\ ClosedNow =>
         LET e == risk_manager'.trade_history[Len(risk_manager'.trade_history)]
             pos == risk_manager.current_position
         IN  /\ HasPosition(risk_manager) /\ ~HasPosition(risk_manager')
             /\ e.size = pos.size
             /\ e.pnl = pos.size * (e.price - pos.entry_price)
      /\ risk_manager'.total_pnl = SumPnl(Closes(risk_manager'.trade_history))]_vars

\* C23 witness: two Positions were opened and closed, the first with a
\* PnL that is not zero
C23_Witness ==
  /\ Len(Closes(risk_manager.trade_history)) = 2
  /\ Closes(risk_manager.trade_history)[1].pnl # 0
  /\ risk_manager.total_pnl = Closes(risk_manager.trade_history)[1].pnl
                               + Closes(risk_manager.trade_history)[2].pnl

\* this step appended an 'open' entry to the trade history
OpenedNow ==
  /\ Len(risk_manager'.trade_history) = Len(risk_manager.trade_history) + 1
  /\ risk_manager'.trade_history[Len(risk_manager'.trade_history)].type = "open"

\* C24: with the balance seeded to InitialBalance, every step that opens a
\* Position lowers available_balance by size * entry_price and leaves
\* balance as it was; in every state with a Position open
\* available_balance = balance - size * entry_price, and in every state
\* without one available_balance = balance = InitialBalance + total_pnl.
C24_BalanceBookkeeping ==
  [][/\ OpenedNow =>
         LET pos == risk_manager'.current_position
         IN  /\ risk_manager'.available_balance
                  = risk_manager.available_balance - pos.size * pos.entry_price
             /\ risk_manager'.balance = risk_manager.balance
      /\ IF HasPosition(risk_manager')
           THEN risk_manager'.available_balance
                  = risk_manager'.balance
                    - risk_manager'.current_position.size
                      * risk_manager'.current_position.entry_price
           ELSE /\ risk_manager'.available_balance = risk_manager'.balance
                /\ risk_manager'.balance
                     = InitialBalance + risk_manager'.total_pnl]_vars

\* the prices update_position is tried with: the prices of the feed and
\* those at and next to the stop loss and the take profit of the Position
ProbePrices ==
  Prices \cup {risk_manager.current_position.stop_loss + d : d \in {0 - 1, 0, 1}}
         \cup {risk_manager.current_position.take_profit + d : d \in {0 - 1, 0, 1}}

\* C25: in every state and for every price, update_position returns SELL
\* when a Position exists and price <= stop_loss or price >= take_profit
\* and None otherwise (strictly between the two, or no Position); it
\* leaves the RiskManager as it was but for the unrealized PnL of the
\* Position, which becomes size * (price - entry_price).
C25_UpdatePositionExits ==
  \A p \in ProbePrices :
    LET pos == risk_manager.current_position
        after == update_position(risk_manager, p)
    IN  /\ update_position_signal(risk_manager, p) =
             (IF HasPosition(risk_manager)
                 /\ (p <= pos.stop_loss \/ p >= pos.take_profit)
                THEN "SELL" ELSE "None")
        /\ IF HasPosition(risk_manager)
             THEN after = [risk_manager EXCEPT
                             !.current_position.unrealized_pnl =
                                pos.size * (p - pos.entry_price)]
             ELSE after = risk_manager

\* C25 witness: a price strictly between stop loss and take profit has
\* come in while a Position was open; the Position is still open, with
\* the unrealized PnL at that price, and execute_signal was not called
C25_Witness ==
  \E p \in Prices :
    LET pos == risk_manager.current_position
    IN  /\ HasPosition(risk_manager)
        /\ pos.stop_loss < p /\ p < pos.take_profit
        /\ p # pos.entry_price
        /\ pos.unrealized_pnl = pos.size * (p - pos.entry_price)
        /\ last = NoLast

\* C26: in every state whose available balance is below the minimum order
\* size, for every price, can_trade(BUY, price) is rejected and its reason
\* is the one of insufficient balance.
C26_LowBalanceRejected ==
  \A p \in Prices :
    risk_manager.available_balance < MinOrderSize =>
      /\ ~can_trade(mode, risk_manager, "BUY", p).allowed
      /\ can_trade(mode, risk_manager, "BUY", p).reason = "Insufficient balance"

\* the strengths the sizing is tried with, in percent
ProbeStrengths == {0, 30, 50, 100}

\* C27: in every state, with B the available balance, f the maximal
\* position fraction, every price p and every strength s of [0, 1], the BUY
\* sizing gives value = B * f * s and size = value / p; size, value and
\* risk amount are s times what they are at strength 1; the value is at
\* most B * f, also for the whole-number sizes the engine's orders carry.
\* With B = 10000, f = 0.1, p = 50000, s = 1: size 0.02 and value 1000.
C27_SizingLinear ==
  LET B == risk_manager.available_balance
      cap == FracMul(Whole(B), Percent(MaxPositionSize))
  IN  /\ \A p \in Prices :
           LET d1 == BuyDetails(B, p, 100)
           IN  \A k \in ProbeStrengths :
                 LET d == BuyDetails(B, p, k)
                     s == Percent(k)
                 IN  /\ FracEq(d.value, FracMul(cap, s))
                     /\ FracEq(d.size, FracDiv(d.value, Whole(p)))
                     /\ FracEq(d.size, FracMul(d1.size, s))
                     /\ FracEq(d.value, FracMul(d1.value, s))
                     /\ FracEq(d.risk_amount, FracMul(d1.risk_amount, s))
                     /\ FracLe(d.value, cap)
      /\ \A p \in Prices, k \in Strengths :
           FracLe(Whole(calculate_order_details(risk_manager, "BUY", p, k).value),
                  cap)
      /\ FracEq(BuyDetails(10000, 50000, 100).size, <<2, 100>>)
      /\ FracEq(BuyDetails(10000, 50000, 100).value, Whole(1000))

\* C27 witness: the first order is a BUY at half strength that was sized
\* from the seeded balance: its size is balance * f * 0.5 / price
C27_Witness ==
  /\ Len(orders) >= 1
  /\ orders[1].side = "buy"
  /\ risk_manager.balance > 0
  /\ Len(risk_manager.trade_history) = 1
  /\ FracEq(Whole(orders[1].size),
            BuyDetails(risk_manager.balance, orders[1].price, 50).size)

\* a step is a call of process
ProcessCalled == last'.task = "process"

\* C28 as stated: every call of process, also one that returns HOLD and one
\* made with too few candles, appends exactly one record to signal_history
\* and leaves the earlier records as they were.
C28_EveryCallAppends ==
  [][ProcessCalled =>
       /\ Len(signal_processor'.signal_history)
            = Len(signal_processor.signal_history) + 1
       /\ SubSeq(signal_processor'.signal_history, 1,
                 Len(signal_processor.signal_history))
            = signal_processor.signal_history]_vars

\* C28 amended: a call of process with at least max(rsi_period,
\* bollinger_period) candles appends exactly one record, the one of the
\* Signal it returns (HOLD included), and leaves the earlier records as they
\* were; a call with fewer candles returns HOLD and leaves signal_history
\* as it was.
C28_SufficientCallAppends ==
  [][ProcessCalled =>
       IF last'.ref >= RequiredCandles
         THEN signal_processor'.signal_history
                = Append(signal_processor.signal_history,
                         [signal |-> last'.kind])
         ELSE /\ last'.kind = "HOLD"
              /\ signal_processor' = signal_processor]_vars

\* C28 witness: a call with too few candles has returned after calls that
\* appended records, the latest of them a HOLD
C28_Witness ==
  /\ last.task = "process"
  /\ last.ref < RequiredCandles
  /\ Len(signal_processor.signal_history) >= 2
  /\ signal_processor.signal_history[Len(signal_processor.signal_history)].signal
       = "HOLD"

\* the last five places of a history
Window(h) == {i \in 1..Len(h) : i > Len(h) - 5}

\* the most recent record of the window that is not a HOLD is an s
LatestMeaningfulIs(h, s) ==
  \E i \in Window(h) :
    /\ h[i].signal = s
    /\ \A j \in Window(h) : j > i => h[j].signal = "HOLD"

Opposite(s) == IF s = "BUY" THEN "SELL" ELSE IF s = "SELL" THEN "BUY" ELSE "none"

\* the indicators process is called with
ProcessIndicators ==
  {_calculate_indicators(rsi, band[3], band[2], band[1], volume[1], volume[2]) :
     rsi \in RsiValues, band \in Bands, volume \in Volumes}

ProbeRsi == {25, 29, 30, 31, 39, 40, 41, 50, 59, 60, 61, 69, 70, 71, 75}
ProbeBands == Bands \cup {<<48000, 49000, 51000>>, <<52000, 49000, 51000>>}
ProbePositions ==
  {<<0, 1>>, <<1, 4>>, <<3, 10>>, <<1, 2>>, <<7, 10>>, <<3, 4>>, <<1, 1>>}
ProbeVolumeRatios == {<<0, 1>>, <<3, 10>>, <<1, 2>>, <<3, 2>>}
ProbeIndicators ==
  {[rsi |-> rsi, close |-> band[1], bb_lower |-> band[2], bb_upper |-> band[3],
    bb_position |-> pos, volume_ratio |-> vr] :
     rsi \in ProbeRsi, band \in ProbeBands, pos \in ProbePositions,
     vr \in ProbeVolumeRatios}

\* the condition of the rule of place i in the list of signal rules
RuleHolds(i, ind) ==
  CASE i = 1 -> ind.rsi < signal_processor.config.rsi_oversold /\ ind.close <= ind.bb_lower
    [] i = 2 -> ind.rsi < signal_processor.config.rsi_oversold
                  /\ FracLt(ind.bb_position, <<3, 10>>)
    [] i = 3 -> ind.close <= ind.bb_lower /\ ind.rsi < 40
    [] i = 4 -> ind.rsi > signal_processor.config.rsi_overbought /\ ind.close >= ind.bb_upper
    [] i = 5 -> ind.rsi > signal_processor.config.rsi_overbought
                  /\ FracLt(<<7, 10>>, ind.bb_position)
    [] i = 6 -> ind.close >= ind.bb_upper /\ ind.rsi > 60
    [] i = 7 -> TRUE

RuleOutcome(i) == IF i <= 3 THEN "BUY" ELSE IF i <= 6 THEN "SELL" ELSE "HOLD"

FirstRule(ind) ==
  CHOOSE i \in 1..7 : RuleHolds(i, ind) /\ \A j \in 1..(i - 1) : ~RuleHolds(j, ind)

\* what the rules and the volume veto give for the indicators
Expected(ind) ==
  IF FracLt(ind.volume_ratio, <<1, 2>>) THEN "HOLD"
  ELSE RuleOutcome(FirstRule(ind))

ScenarioA ==
  [rsi |-> 25, close |-> 49000, bb_lower |-> 49000, bb_upper |-> 51000,
   bb_position |-> <<0, 1>>, volume_ratio |-> <<3, 2>>]

\* C30: while signal_history is empty, for all indicator values
\* _generate_signal returns the outcome of the first rule of the list 1-7
\* that matches, and HOLD whenever the volume ratio is below 0.5; with RSI
\* 25 and close = lower band = 49000 it returns BUY at volume ratio 1.5 and
\* HOLD at 0.3; a call of process with enough candles and an empty history
\* returns just that.
C30_FirstRuleWins ==
  /\ [](signal_processor.signal_history = <<>> =>
          /\ \A ind \in ProbeIndicators :
               _generate_signal(signal_processor, ind) = Expected(ind)
          /\ _generate_signal(signal_processor, ScenarioA) = "BUY"
          /\ _generate_signal(signal_processor,
                              [ScenarioA EXCEPT !.volume_ratio = <<3, 10>>]) = "HOLD")
  /\ [][signal_processor.signal_history = <<>> =>
          \A rsi \in RsiValues, band \in Bands, volume \in Volumes :
            Process(RequiredCandles, rsi, band, volume) =>
              last'.kind = Expected(_calculate_indicators(rsi, band[3], band[2],
                                      band[1], volume[1], volume[2]))]_vars

\* C30 witness: the first call of process with enough candles, made with an
\* empty history, has returned BUY and recorded it
C30_Witness ==
  /\ last = [task |-> "process", kind |-> "BUY", ref |-> RequiredCandles,
             admitted |-> FALSE]
  /\ signal_processor.signal_history = <<[signal |-> "BUY"]>>

\* the snapshots the rules are tried with (the rules do not read the
\* volume ratio)
RuleProbes ==
  {[rsi |-> rsi, close |-> band[1], bb_lower |-> band[2], bb_upper |-> band[3],
    bb_position |-> pos, volume_ratio |-> <<3, 2>>] :
     rsi \in ProbeRsi,
     band \in {<<49000, 49000, 51000>>, <<50000, 49000, 51000>>,
               <<51000, 49000, 51000>>, <<50000, 50000, 50000>>},
     pos \in {<<1, 4>>, <<3, 10>>, <<7, 10>>, <<3, 4>>}}

BuyRuleHolds(ind) == \E i \in 1..3 : RuleHolds(i, ind)
SellRuleHolds(ind) == \E i \in 4..6 : RuleHolds(i, ind)

\* C31 as stated: with every valid configuration and for every snapshot,
\* no BUY rule (1-3) holds together with a SELL rule (4-6), and the chain
\* gives the outcome of every rule that holds, whatever its place.
C31_RulesExclusive ==
  \A ind \in RuleProbes :
    /\ ~(BuyRuleHolds(ind) /\ SellRuleHolds(ind))
    /\ \A i \in 1..6 :
         RuleHolds(i, ind) => RuleSignal(signal_processor, ind) = RuleOutcome(i)

\* the thresholds for which rule 3 (RSI < 40) and rule 6 (RSI > 60) leave
\* no RSI to a rule of the other direction
ThresholdsApart(config) == config.rsi_oversold <= 60 /\ config.rsi_overbought >= 40

\* C31 amended: with rsi_oversold <= 60 and rsi_overbought >= 40 (the
\* defaults 30 and 70 among them) no snapshot satisfies a BUY rule and a
\* SELL rule at once and the chain gives the outcome of every rule that
\* holds; with every valid configuration the chain gives BUY when a BUY
\* rule holds, also when a SELL rule holds with it, and SELL when only a
\* SELL rule holds.
C31_ExclusiveWhenApart ==
  \A ind \in RuleProbes :
    /\ ThresholdsApart(signal_processor.config) =>
         /\ ~(BuyRuleHolds(ind) /\ SellRuleHolds(ind))
         /\ \A i \in 1..6 :
              RuleHolds(i, ind) => RuleSignal(signal_processor, ind) = RuleOutcome(i)
    /\ BuyRuleHolds(ind) => RuleSignal(signal_processor, ind) = "BUY"
    /\ (SellRuleHolds(ind) /\ ~BuyRuleHolds(ind))
         => RuleSignal(signal_processor, ind) = "SELL"

\* C31 witness: with thresholds below 40 process has returned BUY, and
\* there are snapshots that satisfy a BUY rule and a SELL rule at once
C31_Witness ==
  /\ ~ThresholdsApart(signal_processor.config)
  /\ last.task = "process" /\ last.kind = "BUY"
  /\ \E ind \in RuleProbes : BuyRuleHolds(ind) /\ SellRuleHolds(ind)

\* RSI values of [0, 100] and band positions, below the band included
StrengthRsi == {0, 5, 10, 20, 30, 40, 50, 60, 70, 80, 90, 100}
StrengthPositions ==
  {<<0 - 1, 1>>, <<0, 1>>, <<1, 20>>, <<1, 10>>, <<1, 2>>, <<9, 10>>,
   <<19, 20>>, <<1, 1>>, <<2, 1>>}

\* C32: with every valid configuration, for every RSI of [0, 100] and
\* every band position, get_signal_strength does not raise and returns a
\* value of [0, 1], which is 0 when the RSI is strictly between the two
\* thresholds and the band position strictly between 0.1 and 0.9; no call
\* of get_signal_strength made after process has raised.
C32_StrengthInRange ==
  /\ last.task = "strength" => (last.kind = "-" /\ last.ref \in 0..100)
  /\ \A rsi \in StrengthRsi, pos \in StrengthPositions, numbers \in Numbers :
       LET r == get_signal_strength(signal_processor,
                                    [rsi |-> rsi, bb_position |-> pos], numbers)
       IN  /\ ~r.raised
           /\ FracLe(<<0, 1>>, r.value)
           /\ FracLe(r.value, <<1, 1>>)
           /\ (/\ signal_processor.config.rsi_oversold < rsi
               /\ rsi < signal_processor.config.rsi_overbought
               /\ FracLt(<<1, 10>>, pos)
               /\ FracLt(pos, <<9, 10>>)) => r.value = <<0, 1>>

\* C33: in every state, for every number of candles below
\* max(rsi_period, bollinger_period) and whatever the candles hold, process
\* returns HOLD with the empty snapshot and leaves the SignalProcessor as
\* it was; every such call made returned HOLD and changed nothing.
C33_ShortSequenceHolds ==
  /\ [](\A len \in 0..(RequiredCandles - 1), ind \in ProcessIndicators :
          process(signal_processor, len, ind)
            = [sp |-> signal_processor, signal |-> "HOLD",
               indicators |-> NoIndicators])
  /\ [][(ProcessCalled /\ last'.ref < RequiredCandles) =>
          (last'.kind = "HOLD" /\ signal_processor' = signal_processor)]_vars

\* C33 witness: a call with too few candles has returned HOLD after a call
\* that gave a BUY or SELL, which is still the last_signal
C33_Witness ==
  /\ last.task = "process"
  /\ last.ref < RequiredCandles
  /\ last.kind = "HOLD"
  /\ signal_processor.last_signal \in {"BUY", "SELL"}


\* ------------------------------------------------------------- drawdown
\* the balance after the first k 'close' entries, from the balance b0 set
\* at initialisation
BalanceAfter(b0, closed, k) == b0 + SumPnl(SubSeq(closed, 1, k))

\* the largest balance up to the k-th 'close' entry
PeakAfter(b0, closed, k) ==
  CHOOSE p \in {BalanceAfter(b0, closed, j) : j \in 0..k} :
    \A j \in 0..k : BalanceAfter(b0, closed, j) <= p

\* (peak - balance) / peak at the k-th 'close' entry, where it is defined
DrawdownAt(b0, closed, k) ==
  LET p == PeakAfter(b0, closed, k)
  IN  IF p > 0 THEN <<p - BalanceAfter(b0, closed, k), p>> ELSE <<0, 1>>

\* the largest drawdown at any 'close' entry, 0 before the first
LargestDrawdown(b0, closed) ==
  LET ds == {DrawdownAt(b0, closed, k) : k \in 1..Len(closed)} \cup {<<0, 1>>}
  IN  CHOOSE d \in ds : \A e \in ds : FracLe(e, d)

\* C34: max_drawdown never decreases; in every state it equals the largest
\* (peak - balance) / peak at any close so far, the peak and the balance at
\* each close recomputed from the trade history; and peak_balance is never
\* below balance.
C34_DrawdownMonotone ==
  /\ [](/\ risk_manager.peak_balance >= risk_manager.balance
        /\ FracEq(risk_manager.max_drawdown,
                  LargestDrawdown(risk_manager.balance - risk_manager.total_pnl,
                                  Closes(risk_manager.trade_history))))
  /\ [][FracLe(risk_manager.max_drawdown, risk_manager'.max_drawdown)]_vars

\* two closes, a drawdown on record, and the balance back above the low
C34_Witness ==
  /\ Len(Closes(risk_manager.trade_history)) >= 2
  /\ FracGt(risk_manager.max_drawdown, <<0, 1>>)
  /\ risk_manager.peak_balance > 0
  /\ FracGt(risk_manager.max_drawdown,
            <<risk_manager.peak_balance - risk_manager.balance,
              risk_manager.peak_balance>>)


\* ------------------------------------------------------- order counters
\* C35: whenever no execute_signal is in flight, total_orders is the sum
\* of successful_orders and failed_orders.
C35_CountersBalance ==
  InFlight = {} =>
    engine.total_orders = engine.successful_orders + engine.failed_orders


\* ------------------------------------------------------------ order ids
\* no two entries of the sequence s are equal
Distinct(s) == \A i, j \in DOMAIN s : i # j => s[i] # s[j]

\* C36: no two orders the engine created in test or paper mode have the
\* same TEST-n or PAPER-n id, and no two create_order calls of live mode
\* sent the same BOT-n client order id.
C36_IdsUnique ==
  /\ mode \in {"test", "paper"} =>
       Distinct([r \in DOMAIN orders |-> orders[r].order_id])
  /\ Distinct(client.client_order_ids)

\* the ids of paper orders are unique
C36_PaperIdsUnique ==
  mode = "paper" => Distinct([r \in DOMAIN orders |-> orders[r].order_id])

\* the ids of test orders are unique
C36_TestIdsUnique ==
  mode = "test" => Distinct([r \in DOMAIN orders |-> orders[r].order_id])


\* ---------------------------------------------------------- pending set
\* the orders the pending set holds
Tracked == {engine.pending_orders[i][2] : i \in DOMAIN engine.pending_orders}

\* C37: in every state (each is a point where another task may run) the
\* pending set holds exactly the orders whose status is PENDING.
C37_PendingExact ==
  \A r \in DOMAIN orders : (r \in Tracked) <=> (orders[r].status = "PENDING")

\* no order with a terminal status is in the pending set
C37_NoTerminalTracked ==
  \A r \in Tracked : orders[r].status = "PENDING"

\* no PENDING order is out of the pending set
C37_NoPendingDropped ==
  \A r \in DOMAIN orders : orders[r].status = "PENDING" => r \in Tracked


\* ------------------------------------------------- fills and the Position
\* the FILLED orders of one side
FilledOrders(side) ==
  {r \in DOMAIN orders : orders[r].status = "FILLED" /\ orders[r].side = side}

\* the entries of one type in the trade history
HistoryEntries(type) ==
  {i \in DOMAIN risk_manager.trade_history : risk_manager.trade_history[i].type = type}

\* C38: whenever no execute_signal is in flight there are as many FILLED
\* sell orders as 'close' entries in the trade history and as many FILLED
\* buy orders as 'open' entries.
C38_FillsMatchHistory ==
  InFlight = {} =>
    /\ Cardinality(FilledOrders("sell")) = Cardinality(HistoryEntries("close"))
    /\ Cardinality(FilledOrders("buy")) = Cardinality(HistoryEntries("open"))

\* in paper mode no more sell orders are FILLED than Positions were closed
C38_NoDoubleExit ==
  (mode = "paper" /\ InFlight = {}) =>
    Cardinality(FilledOrders("sell")) <= Cardinality(HistoryEntries("close"))


\* ------------------------------------------------- minimal order value
\* C39: in paper and live mode, in every state and for every price and
\* every strength of [0, 1], a buy order that execute_signal places has a
\* value (size * price) of at least the minimal order size.
C39_PlacedBuyAboveMinimum ==
  mode \in {"paper", "live"} =>
    \A p \in Prices, s \in ProbeStrengths :
      LET r == RunToEnd(World, mode, "BUY", p, s)
      IN  \A i \in DOMAIN r.w.orders :
            r.w.orders[i].side = "buy"
              => r.w.orders[i].size * r.w.orders[i].price >= MinOrderSize

\* ------------------------------------------- pending orders come to an end
\* C40: under the fair schedule of FairLiveSpec every order that is in the
\* pending set is FILLED or CANCELLED at some later time.
C40_PendingEnds ==
  \A r \in 1..MaxWaitedCalls :
    (r \in DOMAIN orders /\ r \in Tracked)
      ~> (r \in DOMAIN orders /\ orders[r].status \in {"FILLED", "CANCELLED"})

\* a step that takes an order out of the pending set leaves it FILLED or
\* CANCELLED
C40_NoneDroppedPending ==
  [][\A r \in DOMAIN orders :
       (r \in Tracked /\ r \notin Tracked')
         => orders'[r].status \in {"FILLED", "CANCELLED"}]_vars

====
